---- MODULE Spec2Model ----
(***************************************************************************)
(* Ingestion pipeline of sermon-hub: the per-video ingestion status store  *)
(* (app/db/repositories/ingestion.py) and the orchestrator that drives it  *)
(* (app/services/ingestion/orchestrator.py: sync_channel, retry_failed).   *)
(*                                                                         *)
(* External capabilities (caption fetch, audio download, transcription,    *)
(* metadata fetch, the video table) answer nondeterministically with one   *)
(* of the results or exceptions their code can produce.  Status-store      *)
(* statements themselves are taken to succeed.                             *)
(*                                                                         *)
(* The text and search functions (chunk_text, clean_transcript, the VTT    *)
(* caption parser, SermonSearchService.search with the query expander, and *)
(* EmbeddingPipeline.process_transcript) each have a specification of      *)
(* their own, whose initial states are the calls with their arguments.     *)
(***************************************************************************)
EXTENDS Integers, Sequences, FiniteSets, TLC

\* ------------------------------------------------------------------ bounds
MaxVideos == 2          \* number of distinct video ids of the platform
MaxHandled == 4         \* number of videos handled by all runs together
MaxCeiling == 2         \* largest max_error_count passed to retry_failed

\* --------------------------------------------------------- program constants
min_video_duration_minutes == 15

VideoIds == 1..MaxVideos
Runs == {1}
NULL == "null"
NoDuration == -1        \* duration_seconds is None
MetadataExtractionError == -2   \* fetch_video_info raised

Statuses == {"pending", "downloading", "downloaded", "transcribing",
             "completed", "failed"}

\* ----------------------------------------------------------- small helpers
Range(s) == {s[i] : i \in 1..Len(s)}
Last(s) == s[Len(s)]
Min2(a, b) == IF a < b THEN a ELSE b

\* the channel's video listing in platform order
ChannelListing == [i \in 1..MaxVideos |-> i]

\* =================================================== IngestionRepository
\* A table is a function from the video ids that have a row to the row.
\* updated_at is a logical timestamp: "now" is later than every stored one,
\* and the stored ones are renumbered 1..n in the same order after each write.

NewRow(now) ==
    [status |-> "pending",
     audio_path |-> NULL, audio_format |-> NULL, audio_size_bytes |-> NULL,
     transcript_path |-> NULL, transcript_text |-> NULL,
     error_message |-> NULL, error_count |-> 0,
     download_started_at |-> NULL, download_completed_at |-> NULL,
     transcription_started_at |-> NULL, transcription_completed_at |-> NULL,
     updated_at |-> now]

Now(tbl) == Cardinality(DOMAIN tbl) + 1

Renumber(tbl) ==
    [v \in DOMAIN tbl |->
        [tbl[v] EXCEPT !.updated_at =
            1 + Cardinality({w \in DOMAIN tbl :
                                tbl[w].updated_at < tbl[v].updated_at})]]

\* INSERT ... ON CONFLICT(video_id) DO NOTHING
create(tbl, video_id) ==
    IF video_id \in DOMAIN tbl THEN tbl
    ELSE Renumber(tbl @@ (video_id :> NewRow(Now(tbl))))

\* variant: error_count = error_count + 1 is appended on every update
update_status_counts_every_write(tbl, video_id, status, kwargs) ==
    IF video_id \notin DOMAIN tbl THEN tbl
    ELSE LET old == tbl[video_id]
             new == [f \in DOMAIN old |->
                        IF f = "status" THEN status
                        ELSE IF f = "updated_at" THEN Now(tbl)
                        ELSE IF f = "error_count" THEN old.error_count + 1
                        ELSE IF f \in DOMAIN kwargs THEN kwargs[f]
                        ELSE old[f]]
         IN Renumber([tbl EXCEPT ![video_id] = new])

\* UPDATE ingestion_status SET status = ?, updated_at = ?, <kwargs> WHERE video_id = ?
\* kwargs is a record; the key increment_error_count adds one to error_count.
update_status(tbl, video_id, status, kwargs) ==
    IF video_id \notin DOMAIN tbl THEN tbl
    ELSE LET old == tbl[video_id]
             new == [f \in DOMAIN old |->
                        IF f = "status" THEN status
                        ELSE IF f = "updated_at" THEN Now(tbl)
                        ELSE IF f = "error_count"
                                /\ "increment_error_count" \in DOMAIN kwargs
                             THEN old.error_count + 1
                        ELSE IF f \in DOMAIN kwargs THEN kwargs[f]
                        ELSE old[f]]
         IN Renumber([tbl EXCEPT ![video_id] = new])

\* variant: the downloading mark is not written
set_downloading_unmarked(tbl, video_id) == tbl

set_downloading(tbl, video_id) ==
    update_status(tbl, video_id, "downloading", [download_started_at |-> "set"])

set_downloaded(tbl, video_id, audio_path, audio_format, audio_size_bytes) ==
    update_status(tbl, video_id, "downloaded",
                  [audio_path |-> audio_path, audio_format |-> audio_format,
                   audio_size_bytes |-> audio_size_bytes,
                   download_completed_at |-> "set"])

\* variant: the wrong status constant is written
set_transcribing_wrong_status(tbl, video_id) ==
    update_status(tbl, video_id, "downloaded", [transcription_started_at |-> "set"])

set_transcribing(tbl, video_id) ==
    update_status(tbl, video_id, "transcribing", [transcription_started_at |-> "set"])

\* variant: completing a video clears its error counter
set_completed_resets_errors(tbl, video_id, transcript_text, transcript_path) ==
    update_status(tbl, video_id, "completed",
                  [transcript_text |-> transcript_text,
                   transcription_completed_at |-> "set",
                   transcript_path |-> transcript_path,
                   error_count |-> 0])

set_completed(tbl, video_id, transcript_text, transcript_path) ==
    update_status(tbl, video_id, "completed",
                  IF transcript_path # NULL
                  THEN [transcript_text |-> transcript_text,
                        transcription_completed_at |-> "set",
                        transcript_path |-> transcript_path]
                  ELSE [transcript_text |-> transcript_text,
                        transcription_completed_at |-> "set"])

\* variant: a failure also forgets the audio file
set_failed_clears_audio(tbl, video_id, error_message) ==
    update_status(tbl, video_id, "failed",
                  [error_message |-> error_message, increment_error_count |-> TRUE,
                   audio_path |-> NULL])

set_failed(tbl, video_id, error_message) ==
    update_status(tbl, video_id, "failed",
                  [error_message |-> error_message, increment_error_count |-> TRUE])

\* variant: error_count <= ? in place of error_count < ?
Eligible_inclusive(tbl, max_error_count) ==
    {v \in DOMAIN tbl : tbl[v].status = "failed"
                        /\ tbl[v].error_count <= max_error_count}

\* SELECT * WHERE status = 'failed' AND error_count < ? ORDER BY updated_at LIMIT ?
Eligible(tbl, max_error_count) ==
    {v \in DOMAIN tbl : tbl[v].status = "failed"
                        /\ tbl[v].error_count < max_error_count}

RECURSIVE OrderByUpdatedAt(_, _)
OrderByUpdatedAt(tbl, S) ==
    IF S = {} THEN <<>>
    ELSE LET v == CHOOSE x \in S : \A y \in S : tbl[x].updated_at <= tbl[y].updated_at
         IN <<v>> \o OrderByUpdatedAt(tbl, S \ {v})

list_failed(tbl, max_error_count, limit) ==
    LET all == OrderByUpdatedAt(tbl, Eligible(tbl, max_error_count))
    IN [i \in 1..Min2(limit, Len(all)) |->
            [video_id |-> all[i],
             status |-> tbl[all[i]].status,
             audio_path |-> tbl[all[i]].audio_path,
             error_count |-> tbl[all[i]].error_count]]


\* ================================================================== state
VARIABLES
    ingestion_status,   \* table ingestion_status: video_id -> row
    videos,             \* table videos: video_id -> row
    channels,           \* table channels: channel_id -> row
    audio_files,        \* video ids whose audio file exists in settings.audio_path
    run,                \* per run: the locals of sync_channel / retry_failed
    started,            \* number of videos the runs started so far were given
    calls               \* per text/search function: its call in progress

ingest_vars == <<ingestion_status, videos, channels, audio_files, run, started>>
vars == <<ingestion_status, videos, channels, audio_files, run, started, calls>>

\* a function that is not being called
NotCalled == [pc |-> "idle"]
NoCalls == [chunk_text |-> NotCalled, clean_transcript |-> NotCalled,
            parse_vtt_to_text |-> NotCalled, search |-> NotCalled,
            process_transcript |-> NotCalled, workers |-> NotCalled,
            store |-> NotCalled]

ChannelId == "UC1"

\* what the platform's list view and fetch_video_info may report as duration
ListDurations == {NoDuration, 600, 899, 900}
VideoInfoResults == {MetadataExtractionError, NoDuration, 600, 900}

\* keys of the dict returned by captions._extract_captions_sync
CaptionResultKeys == {"video_id", "source", "text", "segments", "language"}
\* keys of the dict returned by whisper_service._transcribe_sync
TranscriptResultKeys == {"video_id", "transcript_path", "transcript_text",
                         "segments", "language"}

CaptionOutcomes == {"result", "no_captions", "raised"}
\* exceptions download_audio can raise; OSError stands for every exception
\* that is neither VideoUnavailableError nor a DownloadError
DownloadErrors == {"VideoUnavailableError", "DownloadError", "OSError"}
CaughtDownloadErrors == {"VideoUnavailableError", "DownloadError"}
TranscribeErrors == {"TranscriptionFailedError"}

IdleRun ==
    [kind |-> "none", pc |-> "idle",
     download |-> FALSE, transcribe |-> FALSE,
     max_error_count |-> 0, limit |-> 0,
     videos |-> <<>>, failed_videos |-> <<>>, idx |-> 0,
     video_id |-> 0, audio_path |-> NULL,
     videos_skipped |-> 0, videos_created |-> 0, videos_downloaded |-> 0,
     videos_transcribed |-> 0, videos_failed |-> 0,
     retried |-> 0, succeeded |-> 0, failed |-> 0,
     \* history of the handling of the current video
     existing |-> FALSE, duration |-> NoDuration, storage |-> "ok",
     trace |-> <<>>, cap |-> "none", dl |-> "none", tr |-> "none",
     had_file |-> FALSE, error_count0 |-> 0, error_message0 |-> NULL,
     handled |-> <<>>, raised_at |-> {}, returned |-> FALSE]

Init ==
    /\ ingestion_status = <<>>
    /\ videos = <<>>
    /\ channels = <<>>
    /\ audio_files = {}
    /\ run = [r \in Runs |-> IdleRun]
    /\ started = 0
    /\ calls = NoCalls

\* the part of the history that is reset when the handling of a video starts
FreshHistory(rec, v) ==
    [rec EXCEPT !.video_id = v, !.audio_path = NULL,
                !.existing = FALSE, !.duration = NoDuration, !.storage = "ok",
                !.trace = <<>>, !.cap = "none", !.dl = "none", !.tr = "none",
                !.had_file = FALSE,
                !.error_count0 = 0, !.error_message0 = NULL,
                !.handled = Append(rec.handled, v)]

\* variant: the threshold is compared in minutes
IsShort_minutes(duration) == duration < min_video_duration_minutes

\* orchestrator.py 100-102: the minimum-duration admission test
IsShort(duration) == duration < min_video_duration_minutes * 60

\* variant: the exception leaves the loop and ends the run
video_sync_failed_aborts(rec) ==
    [rec EXCEPT !.videos_failed = @ + 1, !.pc = "done",
                !.raised_at = @ \cup {rec.idx}]

\* orchestrator.py 150-156: an exception of the loop body is logged and
\* counted; the loop goes on with the next candidate without sleeping
video_sync_failed(rec) ==
    [rec EXCEPT !.videos_failed = @ + 1, !.idx = @ + 1, !.pc = "loop",
                !.raised_at = @ \cup {rec.idx}]

\* orchestrator.py 139-145: an exception while obtaining the transcript is
\* logged and counted; the body goes on to the sleep
video_processing_failed(rec) ==
    [rec EXCEPT !.videos_failed = @ + 1, !.pc = "sleep",
                !.raised_at = @ \cup {rec.idx}]

\* orchestrator.py 329-331: an exception of the retry loop body is logged
\* and counted; the loop goes on with the next video without sleeping
retry_failed_handler(rec) ==
    [rec EXCEPT !.failed = @ + 1, !.idx = @ + 1, !.pc = "loop",
                !.raised_at = @ \cup {rec.idx}]

NoRunActive == \A r \in Runs : run[r].pc = "idle"

\* metadata.py 58-113: the first `limit` entries of the channel's listing
\* (playlist_items 1:limit; a limit of 0 is falsy and lists everything)
fetch_channel_videos(limit) ==
    IF limit = 0 THEN ChannelListing ELSE SubSeq(ChannelListing, 1, limit)

\* ============================================================ sync_channel
\* orchestrator.py 48-78: fetch channel info, ensure the channel row, fetch
\* the candidate list, zero the counters.  A run starts only while the
\* videos given to all runs together stay within MaxHandled.
sync_channel_start(r) ==
    /\ run[r].pc = "idle"
    /\ \E download \in BOOLEAN, transcribe \in BOOLEAN,
          max_videos \in 0..MaxVideos :
        LET vs == fetch_channel_videos(max_videos)
        IN /\ started + Len(vs) <= MaxHandled
           /\ started' = started + Len(vs)
           /\ run' = [run EXCEPT ![r] =
                    [IdleRun EXCEPT !.kind = "sync", !.pc = "loop",
                                    !.download = download,
                                    !.transcribe = transcribe,
                                    !.videos = vs,
                                    !.idx = 1]]
    /\ channels' = IF ChannelId \in DOMAIN channels THEN channels
                   ELSE channels @@ (ChannelId :> [last_sync_at |-> NULL])
    /\ UNCHANGED <<ingestion_status, videos, audio_files, calls>>

\* scripts/sync_channel.py: one run at a time
StartSync(r) == NoRunActive /\ sync_channel_start(r)

\* orchestrator.py 80-121 and 147-156: one candidate up to the decision
\* whether a transcript is to be obtained.
SyncCheckVideo(r) ==
    /\ run[r].kind = "sync" /\ run[r].pc = "loop"
    /\ run[r].idx <= Len(run[r].videos)
    /\ \E storage \in {"ok", "get_fails", "create_fails"},
          listed \in ListDurations, info \in VideoInfoResults :
        LET rec == run[r]
            v == rec.videos[rec.idx]
            h == FreshHistory(rec, v)
            existing == v \in DOMAIN videos
            fetched == IF listed # NoDuration THEN listed
                       ELSE IF info = MetadataExtractionError THEN NoDuration
                       ELSE info
            duration == IF fetched = NoDuration THEN 0 ELSE fetched
            short == IsShort(duration)
            raised == \/ storage = "get_fails"
                      \/ storage = "create_fails" /\ ~existing /\ ~short
            tbl == create(ingestion_status, v)
            st == tbl[v].status
        IN  IF raised THEN
                \* except Exception (150-156): no sleep, next candidate
                /\ run' = [run EXCEPT ![r] =
                              video_sync_failed(
                                  [h EXCEPT !.storage = storage,
                                            !.existing = existing])]
                /\ UNCHANGED <<ingestion_status, videos>>
            ELSE IF ~existing /\ short THEN
                \* continue (100-110)
                /\ run' = [run EXCEPT ![r] =
                              [h EXCEPT !.duration = duration,
                                        !.videos_skipped = @ + 1,
                                        !.idx = @ + 1]]
                /\ UNCHANGED <<ingestion_status, videos>>
            ELSE
                /\ videos' = IF existing THEN videos
                             ELSE videos @@ (v :> [channel_id |-> ChannelId,
                                                   duration_seconds |-> fetched])
                /\ ingestion_status' = tbl
                /\ run' = [run EXCEPT ![r] =
                              [h EXCEPT !.existing = existing,
                                        !.duration = IF existing THEN NoDuration
                                                     ELSE duration,
                                        !.videos_created =
                                            IF existing THEN @ ELSE @ + 1,
                                        !.trace = <<st>>,
                                        !.error_count0 = tbl[v].error_count,
                                        !.error_message0 = tbl[v].error_message,
                                        !.pc = IF rec.transcribe
                                                  /\ st \in {"pending", "failed"}
                                               THEN "get_captions"
                                               ELSE "sleep"]]
    /\ UNCHANGED <<channels, audio_files, started, calls>>

\* orchestrator.py 211-212: _get_captions marks the video transcribing
GetCaptions(r) ==
    /\ run[r].pc = "get_captions"
    /\ LET v == run[r].video_id
       IN /\ ingestion_status' = set_transcribing(ingestion_status, v)
          /\ run' = [run EXCEPT ![r].pc = "extract_captions",
                                ![r].trace = Append(@, ingestion_status'[v].status)]
    /\ UNCHANGED <<videos, channels, audio_files, started, calls>>

\* orchestrator.py 214-237: the caption fetch answers.  A caption result is
\* the dict of captions.py 160-166; reading result["transcript_path"] from
\* it raises KeyError, which the handler at 233-237 turns into pending.
ExtractCaptionsDone(r) ==
    /\ run[r].pc = "extract_captions"
    /\ \E outcome \in CaptionOutcomes :
        LET v == run[r].video_id
            persisted == /\ outcome = "result"
                         /\ {"transcript_path", "transcript_text"}
                                \subseteq CaptionResultKeys
        IN  IF persisted THEN
                /\ ingestion_status' =
                       set_completed(ingestion_status, v, "text", "path")
                /\ run' = [run EXCEPT ![r].cap = outcome,
                                      ![r].trace = Append(@, ingestion_status'[v].status),
                                      ![r].videos_transcribed = @ + 1,
                                      ![r].pc = "sleep"]
            ELSE
                /\ ingestion_status' =
                       update_status(ingestion_status, v, "pending", <<>>)
                /\ run' = [run EXCEPT ![r].cap = outcome,
                                      ![r].trace = Append(@, ingestion_status'[v].status),
                                      ![r].pc = IF run[r].download
                                                THEN "download_video"
                                                ELSE "sleep"]
    /\ UNCHANGED <<videos, channels, audio_files, started, calls>>


\* orchestrator.py 181-182: _download_video marks the video downloading
DownloadVideo(r) ==
    /\ run[r].pc = "download_video"
    /\ LET v == run[r].video_id
       IN /\ ingestion_status' = set_downloading(ingestion_status, v)
          /\ run' = [run EXCEPT ![r].pc = "download_audio",
                                ![r].trace = Append(@, ingestion_status'[v].status)]
    /\ UNCHANGED <<videos, channels, audio_files, started, calls>>

\* orchestrator.py 184-203 with the caller's handling of the result
\* (sync_channel 129-145, retry_failed 314-331): the download answers.
DownloadAudioDone(r) ==
    /\ run[r].pc = "download_audio"
    /\ \E outcome \in {"ok"} \cup DownloadErrors :
        LET rec == run[r]
            v == rec.video_id
        IN  IF outcome = "ok" THEN
                /\ audio_files' = audio_files \cup {v}
                /\ ingestion_status' =
                       set_downloaded(ingestion_status, v, "path", "mp3", "size")
                /\ run' = [run EXCEPT ![r] =
                              [rec EXCEPT !.dl = outcome,
                                          !.trace = Append(@, ingestion_status'[v].status),
                                          !.audio_path = "path",
                                          !.videos_downloaded =
                                              IF rec.kind = "sync" THEN @ + 1 ELSE @,
                                          !.pc = "transcribe_video"]]
            ELSE IF outcome \in CaughtDownloadErrors THEN
                \* except VideoUnavailableError / DownloadError: return None
                /\ audio_files' = audio_files
                /\ ingestion_status' = set_failed(ingestion_status, v, outcome)
                /\ run' = [run EXCEPT ![r] =
                              [rec EXCEPT !.dl = outcome,
                                          !.trace = Append(@, ingestion_status'[v].status),
                                          !.failed =
                                              IF rec.kind = "retry" THEN @ + 1 ELSE @,
                                          !.pc = "sleep"]]
            ELSE
                \* any other exception leaves _download_video; sync_channel
                \* catches it at 139-145 and still sleeps, retry_failed
                \* catches it at 329-331 after the sleep was skipped
                /\ audio_files' = audio_files
                /\ ingestion_status' = ingestion_status
                /\ run' = [run EXCEPT ![r] =
                              IF rec.kind = "sync"
                              THEN video_processing_failed([rec EXCEPT !.dl = outcome])
                              ELSE retry_failed_handler([rec EXCEPT !.dl = outcome])]
    /\ UNCHANGED <<videos, channels, started, calls>>

\* orchestrator.py 249-250: _transcribe_video marks the video transcribing
TranscribeVideo(r) ==
    /\ run[r].pc = "transcribe_video"
    /\ LET v == run[r].video_id
       IN /\ ingestion_status' = set_transcribing(ingestion_status, v)
          /\ run' = [run EXCEPT ![r].pc = "transcribe",
                                ![r].trace = Append(@, ingestion_status'[v].status)]
    /\ UNCHANGED <<videos, channels, audio_files, started, calls>>

\* orchestrator.py 252-265 with the caller's counting: the transcription
\* answers; whisper_service.py 51-53 raises AudioFileNotFoundError when the
\* file named by audio_path is not there.
TranscribeDone(r) ==
    /\ run[r].pc = "transcribe"
    /\ \E answer \in {"ok"} \cup TranscribeErrors :
        LET rec == run[r]
            v == rec.video_id
            outcome == IF v \notin audio_files THEN "AudioFileNotFoundError"
                       ELSE answer
            persisted == /\ outcome = "ok"
                         /\ {"transcript_path", "transcript_text"}
                                \subseteq TranscriptResultKeys
        IN  IF persisted THEN
                /\ ingestion_status' =
                       set_completed(ingestion_status, v, "text", "path")
                /\ run' = [run EXCEPT ![r] =
                              [rec EXCEPT !.tr = outcome,
                                          !.trace = Append(@, ingestion_status'[v].status),
                                          !.videos_transcribed =
                                              IF rec.kind = "sync" THEN @ + 1 ELSE @,
                                          !.succeeded =
                                              IF rec.kind = "retry" THEN @ + 1 ELSE @,
                                          !.pc = "sleep"]]
            ELSE
                /\ ingestion_status' =
                       set_failed(ingestion_status, v,
                                  IF outcome = "ok" THEN "KeyError" ELSE outcome)
                /\ run' = [run EXCEPT ![r] =
                              [rec EXCEPT !.tr = outcome,
                                          !.trace = Append(@, ingestion_status'[v].status),
                                          !.failed =
                                              IF rec.kind = "retry" THEN @ + 1 ELSE @,
                                          !.pc = "sleep"]]
    /\ UNCHANGED <<videos, channels, audio_files, started, calls>>

\* orchestrator.py 148 / 327: the delay between two videos
Sleep(r) ==
    /\ run[r].pc = "sleep"
    /\ run' = [run EXCEPT ![r].pc = "loop", ![r].idx = @ + 1]
    /\ UNCHANGED <<ingestion_status, videos, channels, audio_files, started, calls>>

\* orchestrator.py 158-173: after the last candidate
SyncFinish(r) ==
    /\ run[r].kind = "sync" /\ run[r].pc = "loop"
    /\ run[r].idx > Len(run[r].videos)
    /\ channels' = [c \in DOMAIN channels |->
                       IF c = ChannelId THEN [channels[c] EXCEPT !.last_sync_at = "set"]
                       ELSE channels[c]]
    /\ run' = [run EXCEPT ![r].pc = "done", ![r].returned = TRUE]
    /\ UNCHANGED <<ingestion_status, videos, audio_files, started, calls>>

\* ============================================================ retry_failed
\* orchestrator.py 281-294
retry_failed_start(r) ==
    /\ run[r].pc = "idle"
    /\ \E max_error_count \in 1..MaxCeiling, limit \in 1..MaxVideos :
        LET failed_videos == list_failed(ingestion_status, max_error_count, limit)
        IN /\ started + Len(failed_videos) <= MaxHandled
           /\ started' = started + Len(failed_videos)
           /\ run' = [run EXCEPT ![r] =
                      [IdleRun EXCEPT !.kind = "retry",
                                      !.max_error_count = max_error_count,
                                      !.limit = limit,
                                      !.failed_videos = failed_videos,
                                      !.idx = 1,
                                      !.pc = IF Len(failed_videos) = 0
                                             THEN "done" ELSE "loop",
                                      !.returned = (Len(failed_videos) = 0)]]
    /\ UNCHANGED <<ingestion_status, videos, channels, audio_files, calls>>

StartRetry(r) == NoRunActive /\ retry_failed_start(r)

\* orchestrator.py 296-314: choose between transcription and download from
\* the row as it was read by list_failed
RetryCheckVideo(r) ==
    /\ run[r].kind = "retry" /\ run[r].pc = "loop"
    /\ run[r].idx <= Len(run[r].failed_videos)
    /\ LET rec == run[r]
           status == rec.failed_videos[rec.idx]
           v == status.video_id
           h == FreshHistory(rec, v)
           has_audio == status.audio_path # NULL /\ status.status = "failed"
       IN run' = [run EXCEPT ![r] =
                     [h EXCEPT !.retried = @ + 1,
                               !.existing = TRUE,
                               !.had_file = v \in audio_files,
                               !.trace = <<ingestion_status[v].status>>,
                               !.error_count0 = ingestion_status[v].error_count,
                               !.error_message0 = ingestion_status[v].error_message,
                               !.audio_path = status.audio_path,
                               !.pc = IF has_audio THEN "transcribe_video"
                                      ELSE "download_video"]]
    /\ UNCHANGED <<ingestion_status, videos, channels, audio_files, started, calls>>

\* orchestrator.py 333-335
RetryFinish(r) ==
    /\ run[r].kind = "retry" /\ run[r].pc = "loop"
    /\ run[r].idx > Len(run[r].failed_videos)
    /\ run' = [run EXCEPT ![r].pc = "done", ![r].returned = TRUE]
    /\ UNCHANGED <<ingestion_status, videos, channels, audio_files, started, calls>>

\* the caller has the summary; the run's locals are gone
Return(r) ==
    /\ run[r].pc = "done"
    /\ run' = [run EXCEPT ![r] = IdleRun]
    /\ UNCHANGED <<ingestion_status, videos, channels, audio_files, started, calls>>

\* ============================================================== downloader
\* downloader.py 157-171: cleanup_audio removes the audio file of a video
cleanup_audio(v) ==
    /\ NoRunActive
    /\ v \in audio_files
    /\ audio_files' = audio_files \ {v}
    /\ UNCHANGED <<ingestion_status, videos, channels, run, started, calls>>

\* ========================================================== specification
Next ==
    \/ \E r \in Runs : StartSync(r)
    \/ \E r \in Runs : SyncCheckVideo(r)
    \/ \E r \in Runs : GetCaptions(r)
    \/ \E r \in Runs : ExtractCaptionsDone(r)
    \/ \E r \in Runs : DownloadVideo(r)
    \/ \E r \in Runs : DownloadAudioDone(r)
    \/ \E r \in Runs : TranscribeVideo(r)
    \/ \E r \in Runs : TranscribeDone(r)
    \/ \E r \in Runs : Sleep(r)
    \/ \E r \in Runs : SyncFinish(r)
    \/ \E r \in Runs : StartRetry(r)
    \/ \E r \in Runs : RetryCheckVideo(r)
    \/ \E r \in Runs : RetryFinish(r)
    \/ \E r \in Runs : Return(r)
    \/ \E v \in VideoIds : cleanup_audio(v)

Spec == Init /\ [][Next]_vars

TypeOK ==
    /\ DOMAIN ingestion_status \subseteq VideoIds
    /\ \A v \in DOMAIN ingestion_status :
          /\ ingestion_status[v].status \in Statuses
          /\ ingestion_status[v].error_count \in 0..MaxHandled
    /\ DOMAIN videos \subseteq VideoIds
    /\ audio_files \subseteq VideoIds


\* ================================================================= claims
Handling(r) == run[r].pc \in {"get_captions", "extract_captions",
                              "download_video", "download_audio",
                              "transcribe_video", "transcribe", "sleep"}

\* C1: in sync_channel with transcription requested, a pending video whose
\* caption extraction returns a caption result is completed in that pass and
\* downloading is never written for it.
C1_CaptionSuccessCompletes ==
    \A r \in Runs :
        (run[r].kind = "sync" /\ Handling(r) /\ run[r].cap = "result"
            /\ run[r].trace[1] = "pending")
        => /\ "downloading" \notin Range(run[r].trace)
           /\ ingestion_status[run[r].video_id].status = "completed"

\* C2: in sync_channel, a pending video whose caption extraction fails or
\* returns nothing and whose download and transcription both succeed ends
\* completed, and downloading, downloaded, transcribing were written in that
\* order immediately before.
C2_FallbackReachesCompleted ==
    \A r \in Runs :
        (run[r].kind = "sync" /\ run[r].pc = "sleep"
            /\ run[r].trace[1] = "pending"
            /\ run[r].cap \in {"no_captions", "raised"}
            /\ run[r].dl = "ok" /\ run[r].tr = "ok")
        => LET t == run[r].trace
               n == Len(t)
           IN /\ ingestion_status[run[r].video_id].status = "completed"
              /\ n >= 5
              /\ SubSeq(t, n - 3, n) =
                    <<"downloading", "downloaded", "transcribing", "completed">>

C2_Witness ==
    \E r \in Runs :
        /\ run[r].kind = "sync" /\ run[r].pc = "sleep"
        /\ run[r].download /\ run[r].transcribe
        /\ run[r].trace[1] = "pending"
        /\ run[r].cap = "raised"
        /\ run[r].dl = "ok" /\ run[r].tr = "ok"

\* C3: every change of a video's status is one of pending->downloading,
\* downloading->downloaded, downloaded->transcribing, transcribing->completed,
\* pending->completed, downloading->failed, transcribing->failed,
\* failed->pending.
SpecifiedTransitions ==
    {<<"pending", "downloading">>, <<"downloading", "downloaded">>,
     <<"downloaded", "transcribing">>, <<"transcribing", "completed">>,
     <<"pending", "completed">>, <<"downloading", "failed">>,
     <<"transcribing", "failed">>, <<"failed", "pending">>}

StatusChangesWithin(T) ==
    \A v \in DOMAIN ingestion_status :
        /\ v \in DOMAIN ingestion_status'
        /\ ingestion_status'[v].status # ingestion_status[v].status
            => <<ingestion_status[v].status, ingestion_status'[v].status>> \in T

C3_SpecifiedTransitionsOnly == [][StatusChangesWithin(SpecifiedTransitions)]_vars

\* C3 as amended: with runs executing one at a time, every change of a
\* video's status is one of the specified transitions or one of
\* pending->transcribing, transcribing->pending (the caption attempt and its
\* reset), failed->transcribing, failed->downloading (a new attempt on a
\* failed video).
CodeTransitions ==
    SpecifiedTransitions \cup
    {<<"pending", "transcribing">>, <<"transcribing", "pending">>,
     <<"failed", "transcribing">>, <<"failed", "downloading">>}

C3_TransitionsOfTheCode == [][StatusChangesWithin(CodeTransitions)]_vars

C3_Witness ==
    \E r \in Runs :
        /\ run[r].kind = "sync" /\ run[r].pc = "download_audio"
        /\ run[r].trace = <<"failed", "transcribing", "pending", "downloading">>

\* C4: whenever the download or the transcription of a video raises, the
\* video is failed, its error_message is that error's message and its
\* error_count is one more than before, before the next video is begun.
C4_EveryFailureRecorded ==
    \A r \in Runs :
        LET err == IF run[r].dl \notin {"none", "ok"} THEN run[r].dl
                   ELSE IF run[r].tr \notin {"none", "ok"} THEN run[r].tr
                   ELSE "none"
            row == ingestion_status[run[r].video_id]
        IN (run[r].kind # "none" /\ err # "none")
           => /\ row.status = "failed"
              /\ row.error_message = err
              /\ row.error_count = run[r].error_count0 + 1


\* C5: error_count never decreases; a write of pending, downloading,
\* downloaded, transcribing or completed leaves it unchanged, and a write of
\* failed adds exactly one.  Rows are never removed.
C5_ErrorCountMonotone ==
    [][\A v \in DOMAIN ingestion_status :
          /\ v \in DOMAIN ingestion_status'
          /\ LET old == ingestion_status[v]
                 new == ingestion_status'[v]
             IN /\ new.error_count >= old.error_count
                /\ new.error_count # old.error_count
                     => new.status = "failed"
                        /\ new.error_count = old.error_count + 1
                /\ (new.status = "failed" /\ old.status # "failed")
                     => new.error_count = old.error_count + 1
                /\ new.status # "failed"
                     => new.error_count = old.error_count]_vars

C5_Witness ==
    \E v \in DOMAIN ingestion_status :
        /\ ingestion_status[v].status = "completed"
        /\ ingestion_status[v].error_count > 0

\* C6: when caption extraction raises or yields no captions the video is
\* pending again (not failed) with error_count and error_message as they
\* were, and with download enabled the download fallback is what follows.
C6_CaptionFailureResetsToPending ==
    \A r \in Runs :
        (run[r].kind = "sync" /\ run[r].cap \in {"no_captions", "raised"}
            /\ run[r].dl = "none" /\ run[r].pc \in {"download_video", "sleep"})
        => LET row == ingestion_status[run[r].video_id]
           IN /\ row.status = "pending"
              /\ Last(run[r].trace) = "pending"
              /\ "failed" \notin Range(Tail(run[r].trace))
              /\ row.error_count = run[r].error_count0
              /\ row.error_message = run[r].error_message0
              /\ run[r].pc = IF run[r].download THEN "download_video" ELSE "sleep"

C6_Witness ==
    \E r \in Runs :
        /\ run[r].kind = "sync" /\ run[r].cap = "raised"
        /\ run[r].pc = "download_video"
        /\ run[r].error_count0 > 0
        /\ ingestion_status[run[r].video_id].status = "pending"
        /\ ingestion_status[run[r].video_id].error_message # NULL

\* C7: the list retry_failed works on holds exactly the rows with status
\* failed and error_count < max_error_count, oldest updated_at first, cut to
\* the first limit rows.
JustListed(r) ==
    /\ run[r].kind = "retry" /\ run[r].retried = 0
    /\ run[r].pc \in {"loop", "done"} /\ run[r].idx = 1

C7_ListFailedSelection ==
    \A r \in Runs :
        JustListed(r)
        => LET L == run[r].failed_videos
               ids == {L[i].video_id : i \in 1..Len(L)}
               retryable == {v \in DOMAIN ingestion_status :
                               /\ ingestion_status[v].status = "failed"
                               /\ ingestion_status[v].error_count
                                      < run[r].max_error_count}
               at(v) == ingestion_status[v].updated_at
           IN /\ ids \subseteq retryable
              /\ Cardinality(ids) = Len(L)
              /\ Len(L) = Min2(run[r].limit, Cardinality(retryable))
              /\ \A i, j \in 1..Len(L) :
                    i < j => at(L[i].video_id) <= at(L[j].video_id)
              /\ \A v \in retryable \ ids : \A w \in ids : at(w) <= at(v)
              /\ \A i \in 1..Len(L) :
                    /\ L[i].status = "failed"
                    /\ L[i].audio_path = ingestion_status[L[i].video_id].audio_path

C7_Witness ==
    \E r \in Runs :
        /\ JustListed(r)
        /\ \E v \in DOMAIN ingestion_status :
              /\ ingestion_status[v].status = "failed"
              /\ ingestion_status[v].error_count >= run[r].max_error_count
        /\ \E v \in DOMAIN ingestion_status :
              ingestion_status[v].status \notin {"failed", "pending"}

\* C8: in retry_failed, a video whose audio file exists is transcribed
\* without a download being started, and a video whose audio file does not
\* exist is downloaded again before it is transcribed.
C8_RetryFollowsAudioFile ==
    \A r \in Runs :
        (run[r].kind = "retry" /\ Handling(r))
        => IF run[r].had_file
           THEN /\ run[r].pc \notin {"download_video", "download_audio"}
                /\ "downloading" \notin Range(run[r].trace)
           ELSE run[r].pc \in {"transcribe_video", "transcribe"}
                    => "downloaded" \in Range(run[r].trace)

\* C9: a candidate not yet known whose duration is under
\* min_video_duration_minutes * 60 seconds gets no video row and no status
\* row, is not captioned, downloaded or transcribed, and adds one to
\* videos_skipped and nothing to videos_created.
JudgedShort(rec) ==
    /\ rec.kind = "sync" /\ rec.video_id # 0
    /\ rec.storage = "ok" /\ ~rec.existing
    /\ rec.duration # NoDuration
    /\ rec.duration < 15 * 60

C9_ShortVideoNeverEnters ==
    /\ [](\A r \in Runs :
            JudgedShort(run[r])
            => /\ run[r].video_id \notin DOMAIN videos
               /\ run[r].video_id \notin DOMAIN ingestion_status
               /\ run[r].trace = <<>>
               /\ run[r].cap = "none" /\ run[r].dl = "none" /\ run[r].tr = "none"
               /\ ~Handling(r))
    /\ [][\A r \in Runs :
            (JudgedShort(run'[r]) /\ run'[r].handled # run[r].handled)
            => /\ run'[r].videos_skipped = run[r].videos_skipped + 1
               /\ run'[r].videos_created = run[r].videos_created
               /\ videos' = videos
               /\ ingestion_status' = ingestion_status]_vars

C9_Witness ==
    \E r \in Runs :
        /\ JudgedShort(run[r])
        /\ run[r].duration = 600
        /\ run[r].videos_skipped = 1 /\ run[r].videos_created = 0
        /\ run[r].pc = "done"

\* C10: sync_channel handles the candidates of the fetched list in list
\* order, one after another, and whatever exception the handling of one
\* candidate raises the later ones are handled and the run returns.
C10_EveryCandidateHandled ==
    \A r \in Runs :
        run[r].kind = "sync"
        => /\ Len(run[r].handled) <= Len(run[r].videos)
           /\ run[r].handled = SubSeq(run[r].videos, 1, Len(run[r].handled))
           /\ run[r].pc = "loop" => Len(run[r].handled) = run[r].idx - 1
           /\ Handling(r) => Len(run[r].handled) = run[r].idx
           /\ run[r].pc = "done"
                => run[r].returned /\ run[r].handled = run[r].videos

C10_Witness ==
    \E r \in Runs :
        /\ run[r].kind = "sync" /\ run[r].pc = "done" /\ run[r].returned
        /\ Len(run[r].videos) = 2
        /\ 1 \in run[r].raised_at
        /\ run[r].handled = run[r].videos
        /\ run[r].tr = "ok"

\* ------------------------------------------------------------ the summary
\* scripts/sync_channel.py 101-106: the exit code computed from the summary
exit_code(result) ==
    IF result.videos_failed > 0
    THEN IF result.videos_transcribed = 0 THEN 2 ELSE 1
    ELSE 0

\* the candidates of the batch a run works through
Batch(rec) == IF rec.kind = "sync" THEN rec.videos ELSE rec.failed_videos

\* C11: when sync_channel returns and the video handled last was set failed
\* by a download or transcription failure of this run, the summary's
\* videos_failed is at least 1 and the sync script's exit code is not 0.
C11_FailedVideosCounted ==
    \A r \in Runs :
        (run[r].kind = "sync" /\ run[r].pc = "done" /\ run[r].returned
            /\ Len(run[r].trace) > 1 /\ Last(run[r].trace) = "failed"
            /\ ingestion_status[run[r].video_id].status = "failed")
        => /\ run[r].videos_failed >= 1
           /\ exit_code(run[r]) # 0

\* C12: in sync_channel and retry_failed, whenever a run moves on to a next
\* video of its batch, it does so out of the delay.
C12_DelayBetweenVideos ==
    [][\A r \in Runs :
        (/\ run[r].idx >= 1
         /\ run'[r].idx = run[r].idx + 1
         /\ run'[r].idx <= Len(Batch(run[r])))
        => run[r].pc = "sleep"]_vars

\* ================================================================ chunker
\* A text is a sequence of characters: SPACE is whitespace, every other
\* character is a letter.  A word is a non-empty sequence of letters.
SPACE == 0

Max2(a, b) == IF a > b THEN a ELSE b

\* str.split(): the maximal runs of non-whitespace characters
RECURSIVE split_acc(_, _, _)
split_acc(text, cur, acc) ==
    IF text = <<>> THEN (IF cur = <<>> THEN acc ELSE Append(acc, cur))
    ELSE IF Head(text) = SPACE
         THEN split_acc(Tail(text), <<>>,
                        IF cur = <<>> THEN acc ELSE Append(acc, cur))
         ELSE split_acc(Tail(text), Append(cur, Head(text)), acc)

split(text) == split_acc(text, <<>>, <<>>)

\* " ".join(words)
RECURSIVE join(_)
join(words) ==
    IF words = <<>> THEN <<>>
    ELSE IF Len(words) = 1 THEN words[1]
    ELSE words[1] \o <<SPACE>> \o join(Tail(words))

\* seq[start:end] with Python's treatment of negative and oversized indices
Slice(seq, start, end) ==
    LET n == Len(seq)
        lo == IF start < 0 THEN Max2(start + n, 0) ELSE Min2(start, n)
        hi == IF end < 0 THEN Max2(end + n, 0) ELSE Min2(end, n)
    IN IF lo < hi THEN SubSeq(seq, lo + 1, hi) ELSE <<>>

\* the text of n one-letter words 1, 2, .., n: separated by single spaces,
\* or with doubled separators and leading and trailing whitespace
RECURSIVE SampleText(_, _)
SampleText(n, padded) ==
    IF n = 0 THEN (IF padded THEN <<SPACE>> ELSE <<>>)
    ELSE IF padded THEN SampleText(n - 1, padded) \o <<SPACE, n, SPACE>>
    ELSE IF n = 1 THEN <<1>>
    ELSE SampleText(n - 1, padded) \o <<SPACE, n>>

MaxWords == 11          \* words of a text given to chunk_text
MaxChunkSize == 5       \* largest chunk_size and chunk_overlap
MaxChunks == MaxWords + 1   \* iterations of the loop that are followed

ChunkTextCalls ==
    { [pc |-> "called", text |-> SampleText(n, padded), video_id |-> 1,
       chunk_size |-> cs, chunk_overlap |-> ov,
       words |-> <<>>, chunks |-> <<>>, chunk_index |-> 0, start |-> 0] :
         n \in 0..MaxWords, padded \in BOOLEAN,
         cs \in 1..MaxChunkSize, ov \in 0..MaxChunkSize }

InitChunker ==
    /\ ingestion_status = <<>> /\ videos = <<>> /\ channels = <<>>
    /\ audio_files = {} /\ run = [r \in Runs |-> IdleRun] /\ started = 0
    /\ \E c \in ChunkTextCalls : calls = [NoCalls EXCEPT !.chunk_text = c]

\* variant: the next chunk starts where the previous one ended
next_start_no_overlap(end, chunk_overlap) == end

\* chunker.py 69: move the start position, accounting for the overlap
next_start(end, chunk_overlap) == end - chunk_overlap

\* chunker.py 41-50: split the text; no words, no chunks
chunk_text_call ==
    /\ calls.chunk_text.pc = "called"
    /\ LET c == calls.chunk_text
           words == split(c.text)
       IN calls' = [calls EXCEPT !.chunk_text =
                       [c EXCEPT !.words = words,
                                 !.pc = IF words = <<>> THEN "returned"
                                        ELSE "loop"]]
    /\ UNCHANGED ingest_vars

\* chunker.py 52-74: one test of the while condition and one pass of the body
chunk_text_pass(c) ==
    LET n == Len(c.words)
        end == Min2(c.start + c.chunk_size, n)
        chunk == [video_id |-> c.video_id,
                  chunk_index |-> c.chunk_index,
                  text |-> join(Slice(c.words, c.start, end)),
                  start_word |-> c.start,
                  end_word |-> end]
        start == next_start(end, c.chunk_overlap)
    IN IF ~(c.start < n) THEN [c EXCEPT !.pc = "returned"]
       ELSE [c EXCEPT !.chunks = Append(@, chunk),
                      !.chunk_index = @ + 1,
                      !.start = start,
                      !.pc = IF start >= n - c.chunk_overlap
                             THEN "returned" ELSE "loop"]

chunk_text_loop ==
    /\ calls.chunk_text.pc = "loop"
    /\ Len(calls.chunk_text.chunks) < MaxChunks
    /\ calls' = [calls EXCEPT !.chunk_text = chunk_text_pass(calls.chunk_text)]
    /\ UNCHANGED ingest_vars

NextChunker == chunk_text_call \/ chunk_text_loop

SpecChunker == InitChunker /\ [][NextChunker]_vars

\* C13: a returned chunk_text call with chunk_size > overlap >= 0 has, for
\* an empty text, no chunks; otherwise its chunks are numbered 0, 1, 2, ..,
\* the first starts at word 0, each following one starts overlap words before
\* the previous end_word, none holds more than chunk_size words, each holds
\* the words of its range, every word lies in some chunk and the last
\* end_word is the word count.
C13_ChunksCoverText ==
    LET c == calls.chunk_text
    IN (c.pc = "returned" /\ c.chunk_size > c.chunk_overlap)
       => LET n == Len(c.words)
              k == Len(c.chunks)
          IN IF n = 0 THEN k = 0
             ELSE /\ k >= 1
                  /\ \A i \in 1..k :
                       /\ c.chunks[i].chunk_index = i - 1
                       /\ c.chunks[i].end_word - c.chunks[i].start_word
                              \in 1..c.chunk_size
                       /\ c.chunks[i].text =
                              join(SubSeq(c.words, c.chunks[i].start_word + 1,
                                          c.chunks[i].end_word))
                  /\ c.chunks[1].start_word = 0
                  /\ \A i \in 1..(k - 1) :
                       c.chunks[i + 1].start_word =
                           c.chunks[i].end_word - c.chunk_overlap
                  /\ \A w \in 0..(n - 1) :
                       \E i \in 1..k : /\ c.chunks[i].start_word <= w
                                       /\ w < c.chunks[i].end_word
                  /\ c.chunks[k].end_word = n

C13_Witness ==
    LET c == calls.chunk_text
    IN /\ c.pc = "returned"
       /\ c.chunk_size = 5 /\ c.chunk_overlap = 2 /\ Len(c.words) = 11
       /\ [i \in 1..Len(c.chunks) |->
              <<c.chunks[i].start_word, c.chunks[i].end_word>>]
            = << <<0, 5>>, <<3, 8>>, <<6, 11>> >>

\* ================================================================ cleaner
\* Letters of the texts given to the cleaner.  The texts are lower-case and
\* free of punctuation, so the case-sensitive and punctuation rules of
\* _clean_fillers (124-125) and _normalize_whitespace (136-137) find nothing.
LetterA == 1
LetterB == 2
LetterC == 3
LetterU == 4
LetterM == 5
LetterH == 6
LetterE == 7
LetterR == 8

\* cleaner.py 121: uh | um | ah | er
Fillers == { <<LetterU, LetterH>>, <<LetterU, LetterM>>,
             <<LetterA, LetterH>>, <<LetterE, LetterR>> }

Vocabulary == { <<LetterA>>, <<LetterB>>, <<LetterC>>,
                <<LetterU, LetterM>>, <<LetterU, LetterH>> }

MaxCleanWords == 7      \* words of a text given to clean_transcript

\* cleaner.py 72-79: the position after the last consecutive repetition
RECURSIVE past_repetitions(_, _, _)
past_repetitions(words, pattern, pos) ==
    LET pattern_len == Len(pattern)
    IN IF /\ pos + pattern_len <= Len(words)
          /\ Slice(words, pos, pos + pattern_len) = pattern
       THEN past_repetitions(words, pattern, pos + pattern_len)
       ELSE pos

\* cleaner.py 62-92: the scan; i is the 0-based position
RECURSIVE scan_duplicates(_, _, _)
scan_duplicates(words, i, result) ==
    IF ~(i < Len(words)) THEN result
    ELSE LET repeats ==
                 { pattern_len \in 3..(Min2(16, (Len(words) - i) \div 2 + 1) - 1) :
                       Slice(words, i, i + pattern_len) =
                       Slice(words, i + pattern_len, i + pattern_len * 2) }
         IN IF repeats # {}
            THEN LET pattern_len == CHOOSE l \in repeats :
                                        \A m \in repeats : l <= m
                     pattern == Slice(words, i, i + pattern_len)
                 IN scan_duplicates(words,
                                    past_repetitions(words, pattern,
                                                     i + pattern_len),
                                    result \o pattern)
            ELSE scan_duplicates(words, i + 1, Append(result, words[i + 1]))

\* cleaner.py 52-94
remove_consecutive_duplicates(text) ==
    LET words == split(text)
    IN IF Len(words) < 4 THEN text
       ELSE join(scan_duplicates(words, 0, <<>>))

\* a run of consecutive identical words is replaced by its first word
RECURSIVE collapse_stutter(_)
collapse_stutter(words) ==
    IF Len(words) < 2 THEN words
    ELSE IF words[1] = words[2]
         THEN collapse_stutter(<<words[1]>> \o Tail(Tail(words)))
         ELSE <<words[1]>> \o collapse_stutter(Tail(words))

\* a run of consecutive filler words is replaced by its first word
RECURSIVE collapse_fillers(_)
collapse_fillers(words) ==
    IF Len(words) < 2 THEN words
    ELSE IF words[1] \in Fillers /\ words[2] \in Fillers
         THEN collapse_fillers(<<words[1]>> \o Tail(Tail(words)))
         ELSE <<words[1]>> \o collapse_fillers(Tail(words))

\* cleaner.py 97-111: \b(\w+)(\s+\1){1,}\b replaced by group 1.  The text is
\* rebuilt with single separators; _normalize_whitespace does the same to
\* whatever separators are left.
remove_word_stuttering(text) == join(collapse_stutter(split(text)))

\* cleaner.py 114-127: a run of filler words is replaced by its first
clean_fillers(text) == join(collapse_fillers(split(text)))

\* cleaner.py 130-142: whitespace runs become one space, the ends are stripped
normalize_whitespace(text) == join(split(text))

\* cleaner.py 10-49
clean_transcript(text) ==
    IF text = <<>> THEN text
    ELSE normalize_whitespace(
             clean_fillers(
                 remove_word_stuttering(
                     remove_consecutive_duplicates(text))))

CleanerInputs ==
    UNION { [1..n -> Vocabulary] : n \in 0..MaxCleanWords }

InitCleaner ==
    /\ ingestion_status = <<>> /\ videos = <<>> /\ channels = <<>>
    /\ audio_files = {} /\ run = [r \in Runs |-> IdleRun] /\ started = 0
    /\ \E ws \in CleanerInputs :
         calls = [NoCalls EXCEPT !.clean_transcript =
                     [pc |-> "called", text |-> join(ws),
                      cleaned |-> <<>>, recleaned |-> <<>>]]

\* clean_transcript applied to the text
clean_transcript_call ==
    /\ calls.clean_transcript.pc = "called"
    /\ calls' = [calls EXCEPT !.clean_transcript.cleaned =
                                  clean_transcript(calls.clean_transcript.text),
                              !.clean_transcript.pc = "cleaned"]
    /\ UNCHANGED ingest_vars

\* clean_transcript applied to its own output
clean_transcript_again ==
    /\ calls.clean_transcript.pc = "cleaned"
    /\ calls' = [calls EXCEPT !.clean_transcript.recleaned =
                                  clean_transcript(calls.clean_transcript.cleaned),
                              !.clean_transcript.pc = "recleaned"]
    /\ UNCHANGED ingest_vars

NextCleaner == clean_transcript_call \/ clean_transcript_again

SpecCleaner == InitCleaner /\ [][NextCleaner]_vars

\* C14: cleaning a cleaned text returns it unchanged.
C14_CleaningIdempotent ==
    calls.clean_transcript.pc = "recleaned"
    => calls.clean_transcript.recleaned = calls.clean_transcript.cleaned

\* a block of 3 to 15 words of ws immediately followed by an identical block
RepeatedBlock(ws) ==
    \E len \in 3..15, i \in 0..Len(ws) :
        /\ i + 2 * len <= Len(ws)
        /\ Slice(ws, i, i + len) = Slice(ws, i + len, i + 2 * len)

\* C15: the cleaned output contains no block of 3 to 15 consecutive words
\* that is immediately followed by an identical block.
C15_NoRepeatedBlockSurvives ==
    calls.clean_transcript.pc \in {"cleaned", "recleaned"}
    => ~RepeatedBlock(split(calls.clean_transcript.cleaned))

\* ========================================================= caption parser
\* A VTT file is a sequence of lines: the header, blank lines, timestamp
\* lines "start --> end" and text lines.  A time is <<hours, minutes,
\* seconds>>.  In a text line TAG stands for a markup tag (<c>, </c>) or a
\* bracketed note ([Music]), which the parser removes.
TAG == -1

MaxCues == 3            \* cues of a subtitle file

\* the texts a line of a cue may carry:  "a", "b", "a b", "a [..] b", "<c>"
LineTexts == { <<LetterA>>, <<LetterB>>, <<LetterA, SPACE, LetterB>>,
               <<LetterA, SPACE, TAG, SPACE, LetterB>> }
CueLines == {<<>>} \cup { <<l>> : l \in LineTexts }
                   \cup { <<l1, l2>> : l1 \in {<<LetterA>>, <<TAG>>},
                                        l2 \in {<<LetterB>>, <<LetterA>>} }

\* the file of the cues: cue i runs from minute i to i + 1 minutes 30
RECURSIVE text_lines(_)
text_lines(ls) ==
    IF ls = <<>> THEN <<>>
    ELSE <<[kind |-> "text", chars |-> Head(ls)]>> \o text_lines(Tail(ls))

RECURSIVE cue_lines(_, _)
cue_lines(cues, i) ==
    IF i > Len(cues) THEN <<>>
    ELSE <<[kind |-> "timestamp", start |-> <<0, i, 0>>, end |-> <<0, i + 1, 30>>]>>
         \o text_lines(cues[i]) \o <<[kind |-> "blank"]>>
         \o cue_lines(cues, i + 1)

vtt_content(cues) ==
    <<[kind |-> "header"], [kind |-> "blank"]>> \o cue_lines(cues, 1)

\* str.strip()
RECURSIVE lstrip(_)
lstrip(chars) ==
    IF chars # <<>> /\ Head(chars) = SPACE THEN lstrip(Tail(chars)) ELSE chars

RECURSIVE rstrip(_)
rstrip(chars) ==
    IF chars # <<>> /\ Last(chars) = SPACE
    THEN rstrip(SubSeq(chars, 1, Len(chars) - 1)) ELSE chars

strip(chars) == rstrip(lstrip(chars))

\* captions.py 68-69: re.sub of tags and bracketed notes
RECURSIVE remove_tags(_)
remove_tags(chars) ==
    IF chars = <<>> THEN <<>>
    ELSE IF Head(chars) = TAG THEN remove_tags(Tail(chars))
    ELSE <<Head(chars)>> \o remove_tags(Tail(chars))

\* captions.py 56-58
time_to_seconds(t) == t[1] * 3600 + t[2] * 60 + t[3]

NoSegment == [start |-> -1, end |-> -1, text |-> <<>>, none |-> TRUE]

\* captions.py 39-80: the loop over the lines, then the last segment
RECURSIVE parse_lines(_, _, _)
parse_lines(lines, segments, current_segment) ==
    LET flushed == IF current_segment.none \/ current_segment.text = <<>>
                   THEN segments
                   ELSE Append(segments, [start |-> current_segment.start,
                                          end |-> current_segment.end,
                                          text |-> current_segment.text])
    IN IF lines = <<>> THEN flushed
       ELSE LET line == Head(lines)
            IN IF line.kind \in {"header", "blank"}
                  \/ (line.kind = "text" /\ strip(line.chars) = <<>>)
               THEN parse_lines(Tail(lines), segments, current_segment)
               ELSE IF line.kind = "timestamp"
               THEN parse_lines(Tail(lines), flushed,
                                [start |-> time_to_seconds(line.start),
                                 end |-> time_to_seconds(line.end),
                                 text |-> <<>>, none |-> FALSE])
               ELSE IF current_segment.none
               THEN parse_lines(Tail(lines), segments, current_segment)
               ELSE LET clean_text == strip(remove_tags(strip(line.chars)))
                    IN parse_lines(Tail(lines), segments,
                          IF clean_text = <<>> THEN current_segment
                          ELSE [current_segment EXCEPT !.text =
                                   IF @ # <<>> THEN @ \o <<SPACE>> \o clean_text
                                   ELSE clean_text])

\* variant: only a segment repeating its immediate predecessor is dropped
RECURSIVE dedupe_segments_adjacent(_, _, _)
dedupe_segments_adjacent(segments, seen_texts, deduped_segments) ==
    IF segments = <<>> THEN deduped_segments
    ELSE LET seg == Head(segments)
             text == strip(seg.text)
         IN IF text # <<>> /\ text \notin seen_texts
            THEN dedupe_segments_adjacent(Tail(segments), {text},
                                          Append(deduped_segments, seg))
            ELSE dedupe_segments_adjacent(Tail(segments), seen_texts,
                                          deduped_segments)

\* captions.py 82-89: deduplicate the segments by text
RECURSIVE dedupe_segments(_, _, _)
dedupe_segments(segments, seen_texts, deduped_segments) ==
    IF segments = <<>> THEN deduped_segments
    ELSE LET seg == Head(segments)
             text == strip(seg.text)
         IN IF text # <<>> /\ text \notin seen_texts
            THEN dedupe_segments(Tail(segments), seen_texts \cup {text},
                                 Append(deduped_segments, seg))
            ELSE dedupe_segments(Tail(segments), seen_texts, deduped_segments)

\* the texts of the segments
Texts(segments) == [i \in 1..Len(segments) |-> segments[i].text]

\* captions.py 26-96
parse_vtt_to_text(vtt) ==
    LET segments == parse_lines(vtt, <<>>, NoSegment)
        deduped_segments == dedupe_segments(segments, {}, <<>>)
        full_text == strip(normalize_whitespace(join(Texts(deduped_segments))))
    IN [full_text |-> full_text, segments |-> deduped_segments]

ParserInputs == UNION { [1..n -> CueLines] : n \in 0..MaxCues }

InitParser ==
    /\ ingestion_status = <<>> /\ videos = <<>> /\ channels = <<>>
    /\ audio_files = {} /\ run = [r \in Runs |-> IdleRun] /\ started = 0
    /\ \E cues \in ParserInputs :
         calls = [NoCalls EXCEPT !.parse_vtt_to_text =
                     [pc |-> "called", cues |-> cues,
                      vtt_content |-> vtt_content(cues),
                      full_text |-> <<>>, segments |-> <<>>]]

parse_vtt_to_text_call ==
    /\ calls.parse_vtt_to_text.pc = "called"
    /\ LET result == parse_vtt_to_text(calls.parse_vtt_to_text.vtt_content)
       IN calls' = [calls EXCEPT !.parse_vtt_to_text.full_text = result.full_text,
                                 !.parse_vtt_to_text.segments = result.segments,
                                 !.parse_vtt_to_text.pc = "returned"]
    /\ UNCHANGED ingest_vars

NextParser == parse_vtt_to_text_call

SpecParser == InitParser /\ [][NextParser]_vars

\* the text of a cue as the file carries it: its non-empty cleaned lines
RECURSIVE CueText(_)
CueText(ls) ==
    IF ls = <<>> THEN <<>>
    ELSE LET first == strip(remove_tags(strip(Head(ls))))
             rest == CueText(Tail(ls))
         IN IF first = <<>> THEN rest
            ELSE IF rest = <<>> THEN first
            ELSE first \o <<SPACE>> \o rest

\* the cues that are the first in file order to carry their non-empty text
FirstCues(cues) ==
    { i \in 1..Len(cues) :
        /\ CueText(cues[i]) # <<>>
        /\ \A j \in 1..(i - 1) : CueText(cues[j]) # CueText(cues[i]) }

\* the returned segments are the first cues of each text, in file order, each
\* with its own times, and no two of them have the same text
SegmentsAreFirstCues(p) ==
    LET kept == FirstCues(p.cues)
        nth(k) == CHOOSE i \in kept : Cardinality({j \in kept : j <= i}) = k
    IN /\ Len(p.segments) = Cardinality(kept)
       /\ \A k \in 1..Len(p.segments) :
            p.segments[k] = [start |-> 60 * nth(k),
                             end |-> 60 * (nth(k) + 1) + 30,
                             text |-> CueText(p.cues[nth(k)])]
       /\ \A k, l \in 1..Len(p.segments) :
            p.segments[k].text = p.segments[l].text => k = l

\* C16 as stated: the segments are the first cues of each text and the plain
\* text is the space-joined texts of the segments.
C16_PlainTextIsJoinedTexts ==
    LET p == calls.parse_vtt_to_text
    IN p.pc = "returned"
       => /\ SegmentsAreFirstCues(p)
          /\ p.full_text = join(Texts(p.segments))

\* C16: the returned segments hold no text twice: of the cues with the same
\* non-empty text exactly the first in file order is kept, with its own
\* times and in file order; the plain text is the space-joined texts of the
\* kept segments with every run of whitespace reduced to one space.
C16_FirstCueOfEachTextKept ==
    LET p == calls.parse_vtt_to_text
    IN p.pc = "returned"
       => /\ SegmentsAreFirstCues(p)
          /\ p.full_text = normalize_whitespace(join(Texts(p.segments)))

C16_Witness ==
    LET p == calls.parse_vtt_to_text
    IN /\ p.pc = "returned"
       /\ Len(p.cues) = 3
       /\ CueText(p.cues[1]) = CueText(p.cues[3])
       /\ CueText(p.cues[1]) = <<LetterA, SPACE, SPACE, LetterB>>
       /\ CueText(p.cues[2]) = <<LetterB>>
       /\ Len(p.segments) = 2
       /\ p.segments[2].start = 120
       /\ p.full_text = <<LetterA, SPACE, LetterB, SPACE, LetterB>>

\* ================================================================= search
\* config.py 64-65: scores are counted in thousandths
min_relevance_score == 350

MaxLimit == 3           \* largest limit given to search
MaxSearchVideos == 3    \* videos the indexed chunks belong to

\* The ranking the vector index holds for a query: n chunks in descending
\* score order, the first c of them at or above the threshold, spread over k
\* videos in turn (1, 2, .., k, 1, ..) or in runs of three (1, 1, 1, 2, ..).
Ranking(n, k, c, in_turn) ==
    [i \in 1..n |->
        [score |-> IF i <= c THEN min_relevance_score + (c - i)
                   ELSE min_relevance_score - (i - c),
         payload |-> [video_id |-> IF in_turn THEN ((i - 1) % k) + 1
                                   ELSE (((i - 1) \div 3) % k) + 1,
                      chunk_index |-> i,
                      text |-> <<LetterA>>]]]

Rankings ==
    { Ranking(n, k, c, in_turn) :
        n \in 0..(3 * MaxLimit), k \in 1..MaxSearchVideos,
        c \in 0..(3 * MaxLimit), in_turn \in BOOLEAN }

\* what the LLM call of expand_sync can come to
LLMAnswers == {"content", "no_api_key", "api_error", "no_choices"}

\* variant: a failed LLM call is passed on to the caller
expand_sync_unguarded(user_feeling, answer) ==
    IF answer = "content"
    THEN [raised |-> FALSE, value |-> strip(<<SPACE, LetterC, SPACE>>)]
    ELSE [raised |-> TRUE, value |-> <<>>]

\* query_expander.py 50-82: the stripped content of the answer, or the
\* input when anything in the try block raised (ValueError of the client
\* property, an API error, a response without choices)
expand_sync(user_feeling, answer) ==
    IF answer = "content"
    THEN [raised |-> FALSE, value |-> strip(<<SPACE, LetterC, SPACE>>)]
    ELSE [raised |-> FALSE, value |-> user_feeling]

\* variant: the relevance threshold is not applied
RECURSIVE select_unique_unfiltered(_, _, _, _)
select_unique_unfiltered(points, limit, seen_videos, unique_results) ==
    IF points = <<>> THEN unique_results
    ELSE LET point == Head(points)
             video_id == point.payload.video_id
         IN IF video_id \notin seen_videos
            THEN LET added == Append(unique_results,
                                [video_id |-> video_id,
                                 score |-> point.score,
                                 matching_text |-> point.payload.text,
                                 chunk_index |-> point.payload.chunk_index])
                 IN IF Len(added) >= limit THEN added
                    ELSE select_unique_unfiltered(Tail(points), limit,
                                       seen_videos \cup {video_id}, added)
            ELSE select_unique_unfiltered(Tail(points), limit, seen_videos,
                                          unique_results)

\* sermon_search.py 61-80: the loop over the points
RECURSIVE select_unique(_, _, _, _)
select_unique(points, limit, seen_videos, unique_results) ==
    IF points = <<>> THEN unique_results
    ELSE LET point == Head(points)
             video_id == point.payload.video_id
         IN IF point.score < min_relevance_score
            THEN select_unique(Tail(points), limit, seen_videos, unique_results)
            ELSE IF video_id \notin seen_videos
            THEN LET added == Append(unique_results,
                                [video_id |-> video_id,
                                 score |-> point.score,
                                 matching_text |-> point.payload.text,
                                 chunk_index |-> point.payload.chunk_index])
                 IN IF Len(added) >= limit THEN added
                    ELSE select_unique(Tail(points), limit,
                                       seen_videos \cup {video_id}, added)
            ELSE select_unique(Tail(points), limit, seen_videos, unique_results)

SearchCalls ==
    { [pc |-> "called", user_feeling |-> <<LetterB, SPACE>>,
       limit |-> limit, expand_query |-> expand_query, ranking |-> ranking,
       answer |-> "none", search_query |-> <<>>, points |-> <<>>,
       unique_results |-> <<>>, enriched_results |-> <<>>, idx |-> 0,
       failure |-> "none"] :
         limit \in 1..MaxLimit, expand_query \in BOOLEAN, ranking \in Rankings }

VideoTables ==
    { [v \in S |-> [channel_id |-> ChannelId, duration_seconds |-> 900]] :
        S \in SUBSET (1..MaxSearchVideos) }

InitSearch ==
    /\ ingestion_status = <<>> /\ channels = <<>>
    /\ audio_files = {} /\ run = [r \in Runs |-> IdleRun] /\ started = 0
    /\ videos \in VideoTables
    /\ \E c \in SearchCalls : calls = [NoCalls EXCEPT !.search = c]

\* sermon_search.py 38-42: the query is expanded if asked for
search_expand ==
    /\ calls.search.pc = "called"
    /\ \E answer \in LLMAnswers :
        LET s == calls.search
            expanded == expand_sync(s.user_feeling, answer)
        IN calls' = [calls EXCEPT !.search =
               IF ~s.expand_query
               THEN [s EXCEPT !.search_query = s.user_feeling, !.pc = "query"]
               ELSE IF expanded.raised
               THEN [s EXCEPT !.answer = answer, !.failure = "expansion",
                              !.pc = "raised"]
               ELSE [s EXCEPT !.answer = answer,
                              !.search_query = expanded.value,
                              !.pc = "query"]]
    /\ UNCHANGED ingest_vars

\* sermon_search.py 44-54: the query is embedded and the index asked for
\* limit * 3 points; a failure of either leaves search as an exception
search_query_points ==
    /\ calls.search.pc = "query"
    /\ \E index_answers \in BOOLEAN :
        LET s == calls.search
        IN calls' = [calls EXCEPT !.search =
               IF index_answers
               THEN [s EXCEPT !.points = SubSeq(s.ranking, 1,
                                            Min2(Len(s.ranking), s.limit * 3)),
                              !.pc = "dedupe"]
               ELSE [s EXCEPT !.failure = "index", !.pc = "raised"]]
    /\ UNCHANGED ingest_vars

\* sermon_search.py 56-80
search_dedupe ==
    /\ calls.search.pc = "dedupe"
    /\ calls' = [calls EXCEPT
           !.search.unique_results =
               select_unique(calls.search.points, calls.search.limit, {}, <<>>),
           !.search.idx = 1,
           !.search.pc = "enrich"]
    /\ UNCHANGED ingest_vars

\* sermon_search.py 82-100: one result is looked up in the video table; a
\* result without a video row is left out, a failing lookup leaves search
\* as an exception
search_enrich ==
    /\ calls.search.pc = "enrich"
    /\ calls.search.idx <= Len(calls.search.unique_results)
    /\ \E lookup_answers \in BOOLEAN :
        LET s == calls.search
            result == s.unique_results[s.idx]
        IN calls' = [calls EXCEPT !.search =
               IF ~lookup_answers
               THEN [s EXCEPT !.failure = "metadata", !.pc = "raised"]
               ELSE IF result.video_id \in DOMAIN videos
               THEN [s EXCEPT !.enriched_results =
                         Append(@, [video_id |-> result.video_id,
                                    duration_seconds |->
                                        videos[result.video_id].duration_seconds,
                                    relevance_score |-> result.score,
                                    matching_excerpt |-> result.matching_text]),
                              !.idx = @ + 1]
               ELSE [s EXCEPT !.idx = @ + 1]]
    /\ UNCHANGED ingest_vars

\* sermon_search.py 102-113
search_return ==
    /\ calls.search.pc = "enrich"
    /\ calls.search.idx > Len(calls.search.unique_results)
    /\ calls' = [calls EXCEPT !.search.pc = "returned"]
    /\ UNCHANGED ingest_vars

NextSearch ==
    \/ search_expand
    \/ search_query_points
    \/ search_dedupe
    \/ search_enrich
    \/ search_return

SpecSearch == InitSearch /\ [][NextSearch]_vars

\* the positions of points holding the first match at or above the threshold
\* of their video
FirstMatches(points) ==
    { i \in 1..Len(points) :
        /\ points[i].score >= min_relevance_score
        /\ \A j \in 1..(i - 1) :
             ~(/\ points[j].score >= min_relevance_score
               /\ points[j].payload.video_id = points[i].payload.video_id) }

Descending(points) ==
    \A i, j \in 1..Len(points) : i < j => points[i].score >= points[j].score

SearchSelected ==
    calls.search.pc \in {"enrich", "returned"}
    \/ (calls.search.pc = "raised" /\ calls.search.failure = "metadata")

\* C17: for points in descending score order and limit N, the selected
\* results are the first matches at or above the threshold of each video, in
\* list order, up to N of them: distinct videos, at most N, none below the
\* threshold, descending scores; nine matches over three videos, all above
\* the threshold and with metadata, give three results with limit 3.
C17_SelectionByScanningInOrder ==
    LET s == calls.search
    IN (SearchSelected /\ Descending(s.points))
       => LET u == s.unique_results
              firsts == FirstMatches(s.points)
              nth(k) == CHOOSE i \in firsts :
                            Cardinality({j \in firsts : j <= i}) = k
          IN /\ Len(u) = Min2(s.limit, Cardinality(firsts))
             /\ \A k \in 1..Len(u) :
                  /\ u[k].video_id = s.points[nth(k)].payload.video_id
                  /\ u[k].score = s.points[nth(k)].score
                  /\ u[k].chunk_index = s.points[nth(k)].payload.chunk_index
                  /\ u[k].score >= min_relevance_score
             /\ \A k, l \in 1..Len(u) :
                  /\ u[k].video_id = u[l].video_id => k = l
                  /\ k < l => u[k].score >= u[l].score
             /\ (/\ s.pc = "returned"
                 /\ Len(s.points) = 9 /\ s.limit = 3
                 /\ Cardinality({s.points[i].payload.video_id :
                                    i \in 1..9}) = 3
                 /\ \A i \in 1..9 :
                      /\ s.points[i].score >= min_relevance_score
                      /\ s.points[i].payload.video_id \in DOMAIN videos)
                => /\ Len(s.enriched_results) = 3
                   /\ {s.enriched_results[i].video_id : i \in 1..3}
                        = {s.points[i].payload.video_id : i \in 1..9}

C17_Witness ==
    LET s == calls.search
    IN /\ s.pc = "returned" /\ s.limit = 3 /\ Len(s.points) = 9
       /\ \A i \in 1..9 : s.points[i].score >= min_relevance_score
       /\ s.points[1].payload.video_id = s.points[2].payload.video_id
       /\ Len(s.enriched_results) = 3
       /\ {s.enriched_results[i].video_id : i \in 1..3} = {1, 2, 3}
       /\ s.enriched_results[1].relevance_score
            > s.enriched_results[3].relevance_score

\* C18: a search never ends in an exception because the vector index or the
\* metadata lookup of one candidate failed; it returns the selected results
\* that have a video row, in order.
C18_LookupFailureDropsCandidate ==
    LET s == calls.search
    IN /\ s.pc = "raised" => s.failure \notin {"index", "metadata"}
       /\ s.pc = "returned"
            => [i \in 1..Len(s.enriched_results) |->
                    s.enriched_results[i].video_id]
               = SelectSeq([i \in 1..Len(s.unique_results) |->
                                s.unique_results[i].video_id],
                           LAMBDA v : v \in DOMAIN videos)

\* C19: whatever the LLM call comes to, expansion does not end the search:
\* after a failed call the search goes on with the input as it was given,
\* after an answered one with the stripped answer.
C19_ExpansionNeverRaises ==
    LET s == calls.search
    IN s.pc \notin {"idle", "called"}
       => /\ s.failure # "expansion"
          /\ (s.expand_query /\ s.answer # "content")
                => s.search_query = s.user_feeling
          /\ (s.expand_query /\ s.answer = "content")
                => s.search_query = <<LetterC>>
          /\ ~s.expand_query => s.search_query = s.user_feeling

C19_Witness ==
    LET s == calls.search
    IN /\ s.pc = "returned" /\ s.expand_query
       /\ s.answer = "no_api_key"
       /\ s.search_query = <<LetterB, SPACE>>
       /\ Len(s.enriched_results) = 2

\* ===================================================== embedding pipeline
\* chunk_text as a function: the passes of the loop up to the return
RECURSIVE chunk_text_run(_)
chunk_text_run(c) ==
    IF c.pc = "returned" THEN c.chunks ELSE chunk_text_run(chunk_text_pass(c))

\* chunker.py 19-76
chunk_text(text, video_id, chunk_size, chunk_overlap) ==
    LET words == split(text)
    IN IF words = <<>> THEN <<>>
       ELSE chunk_text_run([pc |-> "loop", text |-> text, video_id |-> video_id,
                            chunk_size |-> chunk_size,
                            chunk_overlap |-> chunk_overlap,
                            words |-> words, chunks |-> <<>>,
                            chunk_index |-> 0, start |-> 0])

\* embedding_service.py 13
MAX_BATCH_SIZE == 96
\* pipeline.py 19
UPSERT_BATCH_SIZE == 100

MaxTranscriptWords == 3     \* words of a stored transcript

\* the embedding model's vector for a text
Embedding(text) == <<"embedding", text>>

\* the transcript file of the video: absent, or its "text" and "source"
TranscriptFiles ==
    {[exists |-> FALSE, text |-> <<>>, source |-> NULL]}
    \cup { [exists |-> TRUE, text |-> text, source |-> source] :
             text \in {<<SPACE>>}
                      \cup { join(ws) : ws \in UNION { [1..n -> {<<LetterA>>, <<LetterB>>}] :
                                                        n \in 0..MaxTranscriptWords } },
             source \in {NULL, "youtube_captions"} }

ProcessTranscriptCalls ==
    { [pc |-> "called", video_id |-> 1, transcript_data |-> file,
       chunk_size |-> cs, chunk_overlap |-> ov,
       chunks |-> <<>>, chunk_texts |-> <<>>, all_embeddings |-> <<>>,
       i |-> 0, points |-> <<>>, upserted |-> <<>>,
       result |-> [status |-> "none", chunks |-> 0], failure |-> "none"] :
         file \in TranscriptFiles, cs \in 1..2, ov \in 0..1 } 

InitPipeline ==
    /\ ingestion_status = <<>> /\ videos = <<>> /\ channels = <<>>
    /\ audio_files = {} /\ run = [r \in Runs |-> IdleRun] /\ started = 0
    /\ \E c \in ProcessTranscriptCalls :
         /\ c.chunk_size > c.chunk_overlap
         /\ calls = [NoCalls EXCEPT !.process_transcript = c]

\* pipeline.py 78-116: one point per pair of zip(chunks, embeddings); the
\* point ids are fresh
RECURSIVE create_points(_, _, _, _)
create_points(chunks, embeddings, transcript_data, point_id) ==
    IF chunks = <<>> \/ embeddings = <<>> THEN <<>>
    ELSE LET chunk == Head(chunks)
         IN <<[id |-> point_id,
               vector |-> Head(embeddings),
               payload |-> [video_id |-> chunk.video_id,
                            chunk_index |-> chunk.chunk_index,
                            text |-> chunk.text,
                            start_word |-> chunk.start_word,
                            end_word |-> chunk.end_word,
                            source |-> IF transcript_data.source = NULL
                                       THEN "unknown"
                                       ELSE transcript_data.source]]>>
            \o create_points(Tail(chunks), Tail(embeddings), transcript_data,
                             point_id + 1)

\* pipeline.py 38-60: load, clean and chunk the transcript
process_transcript_load ==
    /\ calls.process_transcript.pc = "called"
    /\ LET p == calls.process_transcript
           text == clean_transcript(p.transcript_data.text)
           chunks == chunk_text(text, p.video_id, p.chunk_size, p.chunk_overlap)
       IN calls' = [calls EXCEPT !.process_transcript =
              IF ~p.transcript_data.exists
              THEN [p EXCEPT !.pc = "returned", !.result.status = "not_found"]
              ELSE IF p.transcript_data.text = <<>>
              THEN [p EXCEPT !.pc = "returned", !.result.status = "empty"]
              ELSE IF chunks = <<>>
              THEN [p EXCEPT !.pc = "returned", !.result.status = "no_chunks"]
              ELSE [p EXCEPT !.chunks = chunks,
                             !.chunk_texts = [k \in 1..Len(chunks) |-> chunks[k].text],
                             !.i = 0, !.pc = "embed"]]
    /\ UNCHANGED ingest_vars

\* embedding_service.py 54-74: one batch.  The response carries the float
\* embeddings of the batch, or none (embeddings is None, has no float_, or
\* float_ is empty), or the client raises.
embed_batch ==
    /\ calls.process_transcript.pc = "embed"
    /\ calls.process_transcript.i < Len(calls.process_transcript.chunk_texts)
    /\ \E response \in {"float", "no_float", "raises"} :
        LET p == calls.process_transcript
            batch == Slice(p.chunk_texts, p.i, p.i + MAX_BATCH_SIZE)
        IN calls' = [calls EXCEPT !.process_transcript =
               IF response = "raises"
               THEN [p EXCEPT !.failure = "embed", !.pc = "raised"]
               ELSE [p EXCEPT !.all_embeddings =
                         IF response = "float"
                         THEN @ \o [k \in 1..Len(batch) |-> Embedding(batch[k])]
                         ELSE @,
                              !.i = @ + MAX_BATCH_SIZE]]
    /\ UNCHANGED ingest_vars

\* embedding_service.py 76 and pipeline.py 67: embed returns, the points are
\* created
process_transcript_points ==
    /\ calls.process_transcript.pc = "embed"
    /\ calls.process_transcript.i >= Len(calls.process_transcript.chunk_texts)
    /\ LET p == calls.process_transcript
       IN calls' = [calls EXCEPT !.process_transcript =
              [p EXCEPT !.points = create_points(p.chunks, p.all_embeddings,
                                                 p.transcript_data, 1),
                        !.i = 0, !.pc = "upsert"]]
    /\ UNCHANGED ingest_vars

\* pipeline.py 127-131: one batch is upserted into the index, or the index
\* client raises
upsert_batch ==
    /\ calls.process_transcript.pc = "upsert"
    /\ calls.process_transcript.i < Len(calls.process_transcript.points)
    /\ \E index_answers \in BOOLEAN :
        LET p == calls.process_transcript
            batch == Slice(p.points, p.i, p.i + UPSERT_BATCH_SIZE)
        IN calls' = [calls EXCEPT !.process_transcript =
               IF index_answers
               THEN [p EXCEPT !.upserted = @ \o batch,
                              !.i = @ + UPSERT_BATCH_SIZE]
               ELSE [p EXCEPT !.failure = "upsert", !.pc = "raised"]]
    /\ UNCHANGED ingest_vars

\* pipeline.py 70-74
process_transcript_return ==
    /\ calls.process_transcript.pc = "upsert"
    /\ calls.process_transcript.i >= Len(calls.process_transcript.points)
    /\ calls' = [calls EXCEPT
           !.process_transcript.result =
               [status |-> "completed",
                chunks |-> Len(calls.process_transcript.chunks)],
           !.process_transcript.pc = "returned"]
    /\ UNCHANGED ingest_vars

NextPipeline ==
    \/ process_transcript_load
    \/ embed_batch
    \/ process_transcript_points
    \/ upsert_batch
    \/ process_transcript_return

SpecPipeline == InitPipeline /\ [][NextPipeline]_vars

\* C20: when process_transcript returns for a transcript of k >= 1 chunks,
\* the index has received k points, the i-th with the i-th chunk's payload
\* and the embedding of that chunk's text, and the reported chunk count is
\* the number of points upserted.
C20_OnePointPerChunk ==
    LET p == calls.process_transcript
    IN (p.pc = "returned" /\ Len(p.chunks) >= 1)
       => /\ Len(p.upserted) = Len(p.chunks)
          /\ \A k \in 1..Len(p.upserted) :
               /\ p.upserted[k].vector = Embedding(p.chunks[k].text)
               /\ p.upserted[k].payload =
                    [video_id |-> p.chunks[k].video_id,
                     chunk_index |-> p.chunks[k].chunk_index,
                     text |-> p.chunks[k].text,
                     start_word |-> p.chunks[k].start_word,
                     end_word |-> p.chunks[k].end_word,
                     source |-> IF p.transcript_data.source = NULL
                                THEN "unknown" ELSE p.transcript_data.source]
          /\ p.result.chunks = Len(p.upserted)

\* ================================================== download / transcribe
\* The blocking capabilities.  download_audio runs _download_audio_sync on a
\* thread pool of max_concurrent_downloads workers, behind a semaphore of as
\* many permits and under asyncio.wait_for; transcribe runs _transcribe_sync
\* on a thread pool of one worker.  Each call is a coroutine of its own, made
\* by whichever sync or retry run is in progress.

\* config.py 37
max_concurrent_downloads == 2

MaxCalls == 3           \* calls of download_audio
MaxTranscribeCalls == 2 \* calls of transcribe

DownloadCalls == 1..MaxCalls
TranscribeCalls == 1..MaxTranscribeCalls

\* variant: the pool starts a thread for every submitted download
download_max_workers_per_call == MaxCalls

\* downloader.py 21: ThreadPoolExecutor(max_workers=...)
download_max_workers == max_concurrent_downloads

\* whisper_service.py 21: ThreadPoolExecutor(max_workers=1)
transcribe_max_workers == 1

IdleWorkers ==
    [pc |-> "running",
     \* download_audio
     semaphore |-> max_concurrent_downloads,
     download |-> [c \in DownloadCalls |-> [pc |-> "idle", outcome |-> "none"]],
     download_queue |-> <<>>,      \* work items submitted, not yet started
     download_threads |-> {},      \* calls whose _download_audio_sync executes
     \* transcribe
     transcription |-> [c \in TranscribeCalls |-> [pc |-> "idle", outcome |-> "none"]],
     transcribe_queue |-> <<>>,
     transcribe_threads |-> {}]

InitWorkers ==
    /\ ingestion_status = <<>> /\ videos = <<>> /\ channels = <<>>
    /\ audio_files = {} /\ run = [r \in Runs |-> IdleRun] /\ started = 0
    /\ calls = [NoCalls EXCEPT !.workers = IdleWorkers]

Without(seq, x) == SelectSeq(seq, LAMBDA y : y # x)

\* downloader.py 97-113: the call arrives at "async with _semaphore"
download_audio_call(c) ==
    /\ calls.workers.pc = "running"
    /\ calls.workers.download[c].pc = "idle"
    /\ calls' = [calls EXCEPT !.workers.download[c].pc = "acquire"]
    /\ UNCHANGED ingest_vars

\* downloader.py 113-121: a permit is taken and the work item submitted
download_audio_acquire(c) ==
    /\ calls.workers.pc = "running"
    /\ calls.workers.download[c].pc = "acquire"
    /\ calls.workers.semaphore > 0
    /\ calls' = [calls EXCEPT !.workers.semaphore = @ - 1,
                              !.workers.download_queue = Append(@, c),
                              !.workers.download[c].pc = "await"]
    /\ UNCHANGED ingest_vars

\* a free worker thread of the download pool takes the oldest work item
download_thread_start ==
    /\ calls.workers.pc = "running"
    /\ calls.workers.download_queue # <<>>
    /\ Cardinality(calls.workers.download_threads) < download_max_workers
    /\ calls' = [calls EXCEPT
           !.workers.download_queue = Tail(@),
           !.workers.download_threads = @ \cup {Head(calls.workers.download_queue)}]
    /\ UNCHANGED ingest_vars

\* downloader.py 34-94 and 123-137: _download_audio_sync ends; a caller that
\* is still waiting gets the result or the exception and gives its permit
\* back, a caller that has timed out is no longer there
download_thread_done(c) ==
    /\ calls.workers.pc = "running"
    /\ c \in calls.workers.download_threads
    /\ \E outcome \in {"ok", "DownloadError", "VideoUnavailableError"} :
        LET w == calls.workers
            waiting == w.download[c].pc = "await"
        IN calls' = [calls EXCEPT !.workers =
               [w EXCEPT !.download_threads = @ \ {c},
                         !.semaphore = IF waiting THEN @ + 1 ELSE @,
                         !.download[c] =
                             IF waiting
                             THEN [pc |-> IF outcome = "ok" THEN "returned"
                                          ELSE "raised",
                                   outcome |-> outcome]
                             ELSE @]]
    /\ UNCHANGED ingest_vars

\* downloader.py 118-134: wait_for times out.  The future is cancelled: a
\* work item that no thread has started is dropped, a started one runs on.
\* The caller raises DownloadTimeoutError and gives its permit back.
download_audio_timeout(c) ==
    /\ calls.workers.pc = "running"
    /\ calls.workers.download[c].pc = "await"
    /\ calls' = [calls EXCEPT
           !.workers.download_queue = Without(@, c),
           !.workers.semaphore = @ + 1,
           !.workers.download[c] = [pc |-> "raised",
                                    outcome |-> "DownloadTimeoutError"]]
    /\ UNCHANGED ingest_vars

\* whisper_service.py 116-132: the work item is submitted
transcribe_call(c) ==
    /\ calls.workers.pc = "running"
    /\ calls.workers.transcription[c].pc = "idle"
    /\ calls' = [calls EXCEPT !.workers.transcribe_queue = Append(@, c),
                              !.workers.transcription[c].pc = "await"]
    /\ UNCHANGED ingest_vars

\* the worker thread of the transcription pool takes the oldest work item
transcribe_thread_start ==
    /\ calls.workers.pc = "running"
    /\ calls.workers.transcribe_queue # <<>>
    /\ Cardinality(calls.workers.transcribe_threads) < transcribe_max_workers
    /\ calls' = [calls EXCEPT
           !.workers.transcribe_queue = Tail(@),
           !.workers.transcribe_threads =
               @ \cup {Head(calls.workers.transcribe_queue)}]
    /\ UNCHANGED ingest_vars

\* whisper_service.py 49-113 and 133: _transcribe_sync ends
transcribe_thread_done(c) ==
    /\ calls.workers.pc = "running"
    /\ c \in calls.workers.transcribe_threads
    /\ \E outcome \in {"ok", "TranscriptionFailedError"} :
        calls' = [calls EXCEPT
            !.workers.transcribe_threads = @ \ {c},
            !.workers.transcription[c] =
                [pc |-> IF outcome = "ok" THEN "returned" ELSE "raised",
                 outcome |-> outcome]]
    /\ UNCHANGED ingest_vars

NextWorkers ==
    \/ \E c \in DownloadCalls : download_audio_call(c)
    \/ \E c \in DownloadCalls : download_audio_acquire(c)
    \/ download_thread_start
    \/ \E c \in DownloadCalls : download_thread_done(c)
    \/ \E c \in DownloadCalls : download_audio_timeout(c)
    \/ \E c \in TranscribeCalls : transcribe_call(c)
    \/ transcribe_thread_start
    \/ \E c \in TranscribeCalls : transcribe_thread_done(c)

SpecWorkers == InitWorkers /\ [][NextWorkers]_vars

\* C21: at every moment at most max_concurrent_downloads downloads and at
\* most one transcription execute, also while downloads whose callers have
\* timed out run on; a request beyond that waits for a permit or in the
\* pool's queue.
C21_ConcurrencyCeilings ==
    LET w == calls.workers
    IN w.pc = "running"
       => /\ Cardinality(w.download_threads) <= max_concurrent_downloads
          /\ Cardinality(w.transcribe_threads) <= 1
          /\ \A c \in DownloadCalls :
               w.download[c].pc \in {"acquire", "await"}
               => \/ c \in w.download_threads
                  \/ c \in Range(w.download_queue)
                  \/ w.download[c].pc = "acquire"
          /\ \A c \in TranscribeCalls :
               w.transcription[c].pc = "await"
               => c \in w.transcribe_threads \/ c \in Range(w.transcribe_queue)

C21_Witness ==
    LET w == calls.workers
    IN /\ w.pc = "running"
       /\ Cardinality(w.download_threads) = max_concurrent_downloads
       /\ \E c \in w.download_threads :
            w.download[c].outcome = "DownloadTimeoutError"
       /\ \E c \in DownloadCalls :
            w.download[c].pc = "await" /\ c \in Range(w.download_queue)
       /\ Cardinality(w.transcribe_threads) = 1
       /\ w.transcribe_queue # <<>>

\* C22: once a download call has raised DownloadTimeoutError no download
\* work for it continues.
C22_TimedOutDownloadIsCancelled ==
    LET w == calls.workers
    IN w.pc = "running"
       => \A c \in DownloadCalls :
            w.download[c].outcome = "DownloadTimeoutError"
            => /\ w.download[c].pc = "raised"
               /\ c \notin w.download_threads
               /\ c \notin Range(w.download_queue)

\* ============================================ the repositories, called directly
\* The three tables under direct calls of their repositories, as in
\* tests/test_repositories.py, together with the step of sync_channel that
\* stores one listed video.  calls.store remembers the last call: the
\* operation, its arguments and the exception it raised, if any.

MaxStoreVideos == 2     \* number of video ids the calls are made for
MaxStoreCalls == 4      \* number of calls made on the repositories
StoreVideoIds == 1..MaxStoreVideos
Titles == {"Sunday sermon", "Sunday sermon (edited)"}
StoreDurations == {600, 900}
\* the dict handed to VideoRepository.create / upsert (description,
\* published_at, thumbnail_url and view_count travel with the title)
VideoData ==
    [video_id : StoreVideoIds, channel_id : {ChannelId},
     title : Titles, duration_seconds : StoreDurations]
ChannelData ==
    [channel_id : {ChannelId}, channel_name : {"Test Channel"},
     channel_url : {"https://www.youtube.com/@TestChannel"}]

\* the result of a statement: the table it leaves and the exception raised
Stored(tbl) == [tbl |-> tbl, raised |-> NULL]
IntegrityError(tbl) == [tbl |-> tbl, raised |-> "IntegrityError"]

\* channel.py 19-30: INSERT INTO channels; a second row for a channel_id
\* that has one violates the key and the statement raises
channel_repo_create(tbl, data) ==
    IF data.channel_id \in DOMAIN tbl THEN IntegrityError(tbl)
    ELSE Stored(tbl @@ (data.channel_id :>
                            [channel_name |-> data.channel_name,
                             channel_url |-> data.channel_url,
                             last_sync_at |-> NULL]))

\* video.py 18-41: INSERT INTO videos; video_id is the conflict target of
\* upsert (52), a second row for it violates the key and the statement raises
video_repo_create(tbl, data) ==
    IF data.video_id \in DOMAIN tbl THEN IntegrityError(tbl)
    ELSE Stored(tbl @@ (data.video_id :>
                            [channel_id |-> data.channel_id,
                             title |-> data.title,
                             duration_seconds |-> data.duration_seconds]))

\* video.py 43-71: INSERT ... ON CONFLICT(video_id) DO UPDATE SET title,
\* description, duration_seconds, thumbnail_url, view_count
video_repo_upsert(tbl, data) ==
    IF data.video_id \in DOMAIN tbl
    THEN Stored([tbl EXCEPT ![data.video_id].title = data.title,
                            ![data.video_id].duration_seconds =
                                data.duration_seconds])
    ELSE video_repo_create(tbl, data)

IdleStore == [pc |-> "called", n |-> 0, op |-> "none", video_id |-> 0,
              data |-> NULL, raised |-> NULL]

InitStore ==
    /\ ingestion_status = <<>> /\ videos = <<>> /\ channels = <<>>
    /\ audio_files = {} /\ run = [r \in Runs |-> IdleRun] /\ started = 0
    /\ calls = [NoCalls EXCEPT !.store = IdleStore]

\* the call is made and its outcome remembered
Called(op, video_id, data, raised) ==
    /\ calls.store.pc = "called"
    /\ calls.store.n < MaxStoreCalls
    /\ calls' = [calls EXCEPT !.store =
                    [pc |-> "called", n |-> calls.store.n + 1, op |-> op,
                     video_id |-> video_id, data |-> data, raised |-> raised]]

\* test_repositories.py 14-22
channel_repo_create_call ==
    \E data \in ChannelData :
        LET res == channel_repo_create(channels, data)
        IN /\ Called("ChannelRepository.create", 0, data, res.raised)
           /\ channels' = res.tbl
           /\ UNCHANGED <<ingestion_status, videos, audio_files, run, started>>

\* test_repositories.py 41-54; the channel of the video is there (the
\* connection enforces foreign keys, connection.py 43)
video_repo_create_call ==
    \E data \in VideoData :
        LET res == video_repo_create(videos, data)
        IN /\ data.channel_id \in DOMAIN channels
           /\ Called("VideoRepository.create", data.video_id, data, res.raised)
           /\ videos' = res.tbl
           /\ UNCHANGED <<ingestion_status, channels, audio_files, run, started>>

video_repo_upsert_call ==
    \E data \in VideoData :
        LET res == video_repo_upsert(videos, data)
        IN /\ data.channel_id \in DOMAIN channels
           /\ Called("VideoRepository.upsert", data.video_id, data, res.raised)
           /\ videos' = res.tbl
           /\ UNCHANGED <<ingestion_status, channels, audio_files, run, started>>

\* test_repositories.py 87-90
ingestion_repo_create_call ==
    \E v \in StoreVideoIds :
        /\ Called("IngestionRepository.create", v, NULL, NULL)
        /\ ingestion_status' = create(ingestion_status, v)
        /\ UNCHANGED <<videos, channels, audio_files, run, started>>

\* test_repositories.py 92-116: the transitions of a record that is there
set_downloading_call ==
    \E v \in DOMAIN ingestion_status :
        /\ Called("set_downloading", v, NULL, NULL)
        /\ ingestion_status' = set_downloading(ingestion_status, v)
        /\ UNCHANGED <<videos, channels, audio_files, run, started>>

set_downloaded_call ==
    \E v \in DOMAIN ingestion_status :
        LET data == [audio_path |-> "path", audio_format |-> "mp3",
                     audio_size_bytes |-> "size"]
        IN /\ Called("set_downloaded", v, data, NULL)
           /\ ingestion_status' =
                  set_downloaded(ingestion_status, v, data.audio_path,
                                 data.audio_format, data.audio_size_bytes)
           /\ UNCHANGED <<videos, channels, audio_files, run, started>>

set_transcribing_call ==
    \E v \in DOMAIN ingestion_status :
        /\ Called("set_transcribing", v, NULL, NULL)
        /\ ingestion_status' = set_transcribing(ingestion_status, v)
        /\ UNCHANGED <<videos, channels, audio_files, run, started>>

set_completed_call ==
    \E v \in DOMAIN ingestion_status, transcript_path \in {NULL, "path"} :
        LET data == [transcript_text |-> "text",
                     transcript_path |-> transcript_path]
        IN /\ Called("set_completed", v, data, NULL)
           /\ ingestion_status' =
                  set_completed(ingestion_status, v, data.transcript_text,
                                data.transcript_path)
           /\ UNCHANGED <<videos, channels, audio_files, run, started>>

set_failed_call ==
    \E v \in DOMAIN ingestion_status :
        LET data == [error_message |-> "DownloadError"]
        IN /\ Called("set_failed", v, data, NULL)
           /\ ingestion_status' =
                  set_failed(ingestion_status, v, data.error_message)
           /\ UNCHANGED <<videos, channels, audio_files, run, started>>

\* orchestrator.py 79-116: sync_channel stores one listed video of a
\* channel it has a row for: nothing is written to videos when the video is
\* there, a short one is skipped, a new one is inserted; the status record
\* is created in both remaining cases
sync_channel_video ==
    \E video_data \in VideoData :
        LET video_id == video_data.video_id
            existing == video_id \in DOMAIN videos
            short == IsShort(video_data.duration_seconds)
            res == IF existing THEN Stored(videos)
                   ELSE video_repo_create(videos, video_data)
        IN /\ video_data.channel_id \in DOMAIN channels
           /\ Called("sync_channel", video_id, video_data, res.raised)
           /\ IF ~existing /\ short
              THEN UNCHANGED <<videos, ingestion_status>>
              ELSE /\ videos' = res.tbl
                   /\ ingestion_status' = create(ingestion_status, video_id)
           /\ UNCHANGED <<channels, audio_files, run, started>>

NextStore ==
    \/ channel_repo_create_call
    \/ video_repo_create_call
    \/ video_repo_upsert_call
    \/ ingestion_repo_create_call
    \/ set_downloading_call
    \/ set_downloaded_call
    \/ set_transcribing_call
    \/ set_completed_call
    \/ set_failed_call
    \/ sync_channel_video

SpecStore == InitStore /\ [][NextStore]_vars

\* the key a create call was made for
CreateKey(call) ==
    IF call.op = "ChannelRepository.create" THEN call.data.channel_id
    ELSE call.video_id

\* the table a create call writes
CreateTable(op) ==
    IF op = "ChannelRepository.create" THEN channels
    ELSE IF op = "VideoRepository.create" THEN videos
    ELSE ingestion_status

CreateOps == {"ChannelRepository.create", "VideoRepository.create",
              "IngestionRepository.create"}

\* C23: a create call for a key that has a record succeeds without an
\* exception (and, for a status record, leaves status and error_count as
\* they were).
C23_CreateIsIdempotent ==
    [][LET call == calls'.store
       IN (/\ calls.store.pc = "called" /\ call.pc = "called"
           /\ call.op \in CreateOps
           /\ CreateKey(call) \in DOMAIN CreateTable(call.op))
          => /\ call.raised = NULL
             /\ call.op = "IngestionRepository.create"
                => /\ ingestion_status'[call.video_id].status
                        = ingestion_status[call.video_id].status
                   /\ ingestion_status'[call.video_id].error_count
                        = ingestion_status[call.video_id].error_count]_vars

\* C24: when sync_channel stores a listed video that is there already, the
\* stored title and duration become the listed ones, video_id and
\* channel_id stay.
C24_ResyncUpdatesMutableFields ==
    [][LET call == calls'.store
       IN (/\ calls.store.pc = "called" /\ call.pc = "called"
           /\ call.op = "sync_channel"
           /\ call.video_id \in DOMAIN videos)
          => /\ call.video_id \in DOMAIN videos'
             /\ videos'[call.video_id].title = call.data.title
             /\ videos'[call.video_id].duration_seconds
                    = call.data.duration_seconds
             /\ videos'[call.video_id].channel_id
                    = videos[call.video_id].channel_id]_vars

\* the transitions of the status store: target status and the fields a
\* transition writes besides status and updated_at
TransitionStatus ==
    [set_downloading |-> "downloading", set_downloaded |-> "downloaded",
     set_transcribing |-> "transcribing", set_completed |-> "completed",
     set_failed |-> "failed"]

TransitionFields ==
    [set_downloading |-> {"download_started_at"},
     set_downloaded |-> {"audio_path", "audio_format", "audio_size_bytes",
                         "download_completed_at"},
     set_transcribing |-> {"transcription_started_at"},
     set_completed |-> {"transcript_text", "transcript_path",
                        "transcription_completed_at"},
     set_failed |-> {"error_message", "error_count"}]

\* two rows agree on everything but the time of the last write
SameRecord(a, b) ==
    \A f \in DOMAIN a \ {"updated_at"} : a[f] = b[f]

\* C25: a new record reads pending; a transition of an existing record
\* sets its target status, stores the values it was given, and leaves
\* the fields of the other transitions and the other videos' records alone.
C25_TransitionsWriteOnlyTheirFields ==
    [][LET call == calls'.store
           v == call.video_id
       IN (calls.store.pc = "called" /\ call.pc = "called")
          => /\ (call.op = "IngestionRepository.create"
                    /\ v \notin DOMAIN ingestion_status)
                => /\ ingestion_status'[v].status = "pending"
                   /\ \A w \in DOMAIN ingestion_status :
                        SameRecord(ingestion_status'[w], ingestion_status[w])
             /\ call.op \in DOMAIN TransitionStatus
                => LET old == ingestion_status[v]
                       new == ingestion_status'[v]
                   IN /\ DOMAIN ingestion_status' = DOMAIN ingestion_status
                      /\ new.status = TransitionStatus[call.op]
                      /\ \A f \in DOMAIN old \ (TransitionFields[call.op]
                                                 \cup {"status", "updated_at"}) :
                            new[f] = old[f]
                      /\ call.op = "set_downloaded"
                         => /\ new.audio_path = call.data.audio_path
                            /\ new.audio_format = call.data.audio_format
                            /\ new.audio_size_bytes = call.data.audio_size_bytes
                      /\ call.op = "set_completed"
                         => new.transcript_text = call.data.transcript_text
                      /\ \A w \in DOMAIN ingestion_status \ {v} :
                            SameRecord(ingestion_status'[w], ingestion_status[w])]_vars

\* a record that was downloaded is completed or failed later, next to
\* another video's record
C25_Witness ==
    /\ calls.store.pc = "called"
    /\ calls.store.op \in {"set_completed", "set_failed"}
    /\ ingestion_status[calls.store.video_id].audio_path = "path"
    /\ ingestion_status[calls.store.video_id].status \in {"completed", "failed"}
    /\ \E w \in DOMAIN ingestion_status : w # calls.store.video_id

\* C26: in a sync_channel run with download enabled and transcription
\* disabled, an admitted video found pending has its audio downloaded and
\* is left in status downloaded when the run turns to the next video.
C26_DownloadOnlyRunDownloads ==
    \A r \in DOMAIN run :
        (/\ run[r].kind = "sync" /\ run[r].pc = "sleep"
         /\ run[r].download /\ ~run[r].transcribe
         /\ run[r].trace # <<>> /\ run[r].trace[1] = "pending")
        => /\ ingestion_status[run[r].video_id].status = "downloaded"
           /\ run[r].video_id \in audio_files

\* C27: for every chunk_size >= 1 and overlap >= 0 the walk of chunk_text
\* makes progress: each chunk after the first ends strictly later than the
\* one before, so there are never more chunks than words.
C27_WalkAdvances ==
    LET c == calls.chunk_text
    IN c.pc \in {"loop", "returned"}
       => /\ \A i \in 2..Len(c.chunks) :
                c.chunks[i].end_word > c.chunks[i - 1].end_word
          /\ Len(c.chunks) <= Len(c.words)

\* ===================================================== runs side by side
\* sync_channel and retry_failed are coroutines of one orchestrator with no
\* lock between them (routes start them per request, the scripts per
\* process): two runs whose steps interleave on the shared tables.
ConcurrentRuns == {1, 2}
MaxConcurrentHandled == 3   \* videos handled by the runs side by side together

InitConcurrent ==
    /\ ingestion_status = <<>> /\ videos = <<>> /\ channels = <<>>
    /\ audio_files = {} /\ started = 0
    /\ run = [r \in ConcurrentRuns |-> IdleRun]
    /\ calls = NoCalls

NextConcurrent ==
    /\ \E r \in ConcurrentRuns :
         \/ sync_channel_start(r)
         \/ SyncCheckVideo(r)
         \/ GetCaptions(r)
         \/ ExtractCaptionsDone(r)
         \/ DownloadVideo(r)
         \/ DownloadAudioDone(r)
         \/ TranscribeVideo(r)
         \/ TranscribeDone(r)
         \/ Sleep(r)
         \/ SyncFinish(r)
         \/ retry_failed_start(r)
         \/ RetryCheckVideo(r)
         \/ RetryFinish(r)
         \/ Return(r)
    /\ started' <= MaxConcurrentHandled

SpecConcurrent == InitConcurrent /\ [][NextConcurrent]_vars

\* C28: a status that is completed stays completed, whatever runs are
\* under way.
C28_CompletedIsFinal ==
    [][\A v \in DOMAIN ingestion_status :
          ingestion_status[v].status = "completed"
          => ingestion_status'[v].status = "completed"]_vars

\* the case of the stale list: a retry run marks downloading a video that
\* another run completed after the retry run had listed it as failed
C28_StaleRetryStaysAway ==
    [][\A r \in ConcurrentRuns :
          (/\ run[r].kind = "retry" /\ run[r].pc = "download_video"
           /\ ingestion_status[run[r].video_id].status = "completed")
          => ingestion_status'[run[r].video_id].status = "completed"]_vars

\* C29: when a run returns, every video it handled that has a status
\* record is pending, completed or failed.
C29_NoIntermediateStatusAtReturn ==
    \A r \in DOMAIN run :
        (run[r].pc = "done" /\ run[r].returned)
        => \A i \in 1..Len(run[r].handled) :
              LET v == run[r].handled[i]
              IN v \in DOMAIN ingestion_status
                 => ingestion_status[v].status
                        \in {"pending", "completed", "failed"}

\* orchestrator.py 269: the ceiling retry_failed is called with by default;
\* every ceiling a retry run is given here is at most this one
retry_failed_max_error_count == 3

\* a run is attempting the transcript of the video it handles
Attempting(r) == run[r].pc \in {"get_captions", "extract_captions",
                                "download_video", "download_audio",
                                "transcribe_video", "transcribe"}

\* C30: with the ceiling max_error_count, no run attempts a video that it
\* found failed with error_count >= max_error_count, and no error_count
\* exceeds max_error_count.
C30_RetriesBounded ==
    /\ \A r \in DOMAIN run :
          (/\ run[r].kind \in {"sync", "retry"} /\ Attempting(r)
           /\ run[r].trace # <<>> /\ run[r].trace[1] = "failed")
          => run[r].error_count0 < retry_failed_max_error_count
    /\ \A v \in DOMAIN ingestion_status :
          ingestion_status[v].error_count <= retry_failed_max_error_count

====
